---- MODULE Spec2Model ----
(***************************************************************************)
(* A model of the @bakissation/satim client: the three gateway operations  *)
(* (register, confirm, refund), the transport function makeRequest with    *)
(* its timeout, hooks and logging, and the pure helpers they use.          *)
(*                                                                         *)
(* JavaScript values are records [t, n, d, s]: t is the typeof tag, a      *)
(* number is n / 10^d, a string is the sequence s of its characters.  A    *)
(* string whose characters are never inspected by the code (a message, a   *)
(* URL, a credential) is written as a sequence of longer pieces.  A        *)
(* JavaScript object is a function from its own keys to values.            *)
(***************************************************************************)
EXTENDS Integers, Sequences, FiniteSets, TLC

\* ------------------------------------------------------------------------
\* Bounds of the model
\* ------------------------------------------------------------------------

\* Largest elapsed time (in ticks) the clock is followed to.
MaxTime == 3

\* ------------------------------------------------------------------------
\* JavaScript values
\* ------------------------------------------------------------------------

Undefined == [t |-> "undefined", n |-> 0, d |-> 0, s |-> <<>>]

Null == [t |-> "null", n |-> 0, d |-> 0, s |-> <<>>]

Num(k) == [t |-> "number", n |-> k, d |-> 0, s |-> <<>>]

Dec(k, e) == [t |-> "number", n |-> k, d |-> e, s |-> <<>>]

Str(cs) == [t |-> "string", n |-> 0, d |-> 0, s |-> cs]

Bool(b) == [t |-> "boolean", n |-> IF b THEN 1 ELSE 0, d |-> 0, s |-> <<>>]

\* The bigint k, written kn
BigInt(k) == [t |-> "bigint", n |-> k, d |-> 0, s |-> <<>>]

\* The number NaN: its s is its name
NaN == [t |-> "number", n |-> 0, d |-> 0, s |-> <<"N", "a", "N">>]

\* isNaN(v) of a number
IsNaN(v) == v.t = "number" /\ v.s # <<>>

\* value === undefined || value === null
IsNullish(v) == v.t \in {"undefined", "null"}

\* ToBoolean(v), as used by !v and by `if (v)`
Truthy(v) ==
  CASE v.t = "undefined" -> FALSE
    [] v.t = "null" -> FALSE
    [] v.t = "number" -> v.n # 0
    [] v.t = "string" -> v.s # <<>>
    [] v.t = "boolean" -> v.n = 1
    [] v.t = "bigint" -> v.n # 0
    [] OTHER -> TRUE

\* a ?? b
Coalesce(a, b) == IF IsNullish(a) THEN b ELSE a

\* obj[key] of an object that may lack the key
Get(obj, key) == IF key \in DOMAIN obj THEN obj[key] ELSE Undefined

\* The object without properties
EmptyObject == [k \in {} |-> Undefined]

\* obj with obj[key] = value added or replaced
Put(obj, key, value) ==
  [k \in DOMAIN obj \cup {key} |-> IF k = key THEN value ELSE obj[k]]

\* ------------------------------------------------------------------------
\* Characters and numbers
\* ------------------------------------------------------------------------

DigitChars == <<"0", "1", "2", "3", "4", "5", "6", "7", "8", "9">>

IsDigit(c) == \E i \in 1..10 : DigitChars[i] = c

IsSpace(c) == c = " "

RECURSIVE Pow10(_)
Pow10(e) == IF e = 0 THEN 1 ELSE 10 * Pow10(e - 1)

\* The decimal digits of a natural number
RECURSIVE NatToChars(_)
NatToChars(k) ==
  IF k < 10 THEN <<DigitChars[k + 1]>>
  ELSE NatToChars(k \div 10) \o <<DigitChars[(k % 10) + 1]>>

\* k written with at least w digits
RECURSIVE PadDigits(_, _)
PadDigits(cs, w) == IF Len(cs) >= w THEN cs ELSE PadDigits(<<"0">> \o cs, w)

\* Number.prototype.toString() for a decimal of ordinary magnitude
NumberToString(v) ==
  LET a == IF v.n < 0 THEN 0 - v.n ELSE v.n
      sign == IF v.n < 0 THEN <<"-">> ELSE <<>>
  IN IF v.s # <<>> THEN v.s
     ELSE IF v.d = 0 THEN sign \o NatToChars(a)
     ELSE sign \o NatToChars(a \div Pow10(v.d)) \o <<".">>
          \o PadDigits(NatToChars(a % Pow10(v.d)), v.d)

\* The value of a run of digits
RECURSIVE DigitsToNat(_)
DigitsToNat(cs) ==
  LET
      DigitVal(c) == (CHOOSE i \in 1..10 : DigitChars[i] = c) - 1
  IN
  IF cs = <<>> THEN 0
  ELSE 10 * DigitsToNat(SubSeq(cs, 1, Len(cs) - 1)) + DigitVal(cs[Len(cs)])

\* The longest prefix of cs made of digits
RECURSIVE LeadingDigits(_)
LeadingDigits(cs) ==
  IF cs = <<>> \/ ~IsDigit(Head(cs)) THEN <<>>
  ELSE <<Head(cs)>> \o LeadingDigits(Tail(cs))

RECURSIVE TrimStart(_)
TrimStart(cs) ==
  IF cs # <<>> /\ IsSpace(Head(cs)) THEN TrimStart(Tail(cs)) ELSE cs

RECURSIVE TrimEnd(_)
TrimEnd(cs) ==
  IF cs # <<>> /\ IsSpace(cs[Len(cs)])
  THEN TrimEnd(SubSeq(cs, 1, Len(cs) - 1)) ELSE cs

\* String.prototype.trim()
Trim(cs) == TrimEnd(TrimStart(cs))

\* parseInt(cs, 10): leading blanks, an optional sign, then digits up to the
\* first character that is not one; NaN when there is no digit.
parseInt(cs) ==
  LET t0 == TrimStart(cs)
      signed == t0 # <<>> /\ Head(t0) \in {"-", "+"}
      body == IF signed THEN Tail(t0) ELSE t0
      digits == LeadingDigits(body)
      mag == DigitsToNat(digits)
  IN [nan |-> digits = <<>>,
      n |-> IF t0 # <<>> /\ Head(t0) = "-" THEN 0 - mag ELSE mag]

\* ------------------------------------------------------------------------
\* Constants of the library
\* ------------------------------------------------------------------------

MIN_AMOUNT_DZD == 50

MAX_DECIMALS == 2

MAX_ORDER_NUMBER_LENGTH == 10

MAX_UDF_LENGTH == 20

MAX_DESCRIPTION_LENGTH == 512

MAX_JSON_PARAMS_LENGTH == 1024

PARTIAL_SHOW_CHARS == 6

ENDPOINTS ==
  [REGISTER |-> <<"/", "register.do">>,
   CONFIRM |-> <<"/", "public/acknowledgeTransaction.do">>,
   REFUND |-> <<"/", "refund.do">>]

DEFAULTS ==
  [LANGUAGE |-> Str(<<"fr">>), CURRENCY |-> Str(<<"0", "1", "2">>),
   HTTP_METHOD |-> "POST", TIMEOUT_MS |-> 30000, LOG_LEVEL |-> "info",
   CONNECT_TIMEOUT_MS |-> 10000, VERIFY_SSL |-> TRUE]

API_BASE_URLS ==
  [TEST |-> Str(<<"https://test2.satim.dz/payment/rest">>),
   PRODUCTION |-> Str(<<"https://satim.dz/payment/rest">>)]

ENV_VARS ==
  [USERNAME |-> "USERNAME", PASSWORD |-> "PASSWORD",
   TERMINAL_ID |-> "TERMINAL_ID", API_URL |-> "API_URL",
   LANGUAGE |-> "LANGUAGE", CURRENCY |-> "CURRENCY",
   HTTP_METHOD |-> "HTTP_METHOD", HTTP_TIMEOUT_MS |-> "HTTP_TIMEOUT_MS",
   HTTP_CONNECT_TIMEOUT_MS |-> "HTTP_CONNECT_TIMEOUT_MS",
   HTTP_VERIFY_SSL |-> "HTTP_VERIFY_SSL", LOG_LEVEL |-> "LOG_LEVEL",
   LOG_DEV |-> "LOG_DEV"]

\* ------------------------------------------------------------------------
\* Errors
\* ------------------------------------------------------------------------

\* No cause attached to an error
NoCause == [name |-> "", from |-> ""]

\* Identifies an Error object by its name and by what threw it
JsError(name, from) == [name |-> name, from |-> from]

SatimError(name, message, kind, code, httpStatus, satimErrorCode, details, cause) ==
  [name |-> name, message |-> message, kind |-> kind, code |-> code,
   httpStatus |-> httpStatus, satimErrorCode |-> satimErrorCode,
   details |-> details, cause |-> cause,
   endpoint |-> "", timeoutMs |-> Undefined]

ValidationError(message, code, details) ==
  SatimError("ValidationError", message, "VALIDATION_ERROR", code,
             Undefined, Undefined, details, NoCause)

HttpError(message, httpStatus, cause) ==
  SatimError("HttpError", message, "HTTP_ERROR", "HTTP_REQUEST_FAILED",
             httpStatus, Undefined, EmptyObject, cause)

TimeoutError(message, timeoutMs, cause) ==
  [SatimError("TimeoutError", message, "TIMEOUT_ERROR", "REQUEST_TIMEOUT",
              Undefined, Undefined, [timeoutMs |-> timeoutMs], cause)
   EXCEPT !.timeoutMs = timeoutMs]

SatimApiError(message, endpoint, satimErrorCode, details) ==
  [SatimError("SatimApiError", message, "API_ERROR", "SATIM_API_ERROR",
              Undefined, satimErrorCode,
              Put(details, "endpoint", Str(<<endpoint>>)), NoCause)
   EXCEPT !.endpoint = endpoint]

\* An Error object that is not a SatimError, thrown by the runtime, the
\* transport, the JSON parser or a hook (from).
RuntimeError(name, from) ==
  SatimError(name, <<>>, "NONE", "", Undefined, Undefined, EmptyObject,
             JsError("", from))

\* options.cause of an error wrapping the caught error e
CauseOf(e) == JsError(e.name, e.cause.from)

\* The absence of an error
NoError ==
  SatimError("", <<>>, "NONE", "", Undefined, Undefined, EmptyObject, NoCause)

\* The outcome of a call that may throw
Ok(v) == [threw |-> FALSE, value |-> v, error |-> NoError]

Thrown(e) == [threw |-> TRUE, value |-> Undefined, error |-> e]

REGISTER_ERROR_CODES ==
  [c \in {0, 1, 3, 4, 5, 7, 14} |->
     CASE c = 0 -> "No system error"
       [] c = 1 -> "Order with given order number has already been processed"
       [] c = 3 -> "Unknown currency"
       [] c = 4 -> "Required parameter is not specified"
       [] c = 5 -> "Incorrect value of a request parameter"
       [] c = 7 -> "System error"
       [] c = 14 -> "Paymentway is invalid"]

CONFIRM_ERROR_CODES ==
  [c \in {0, 2, 5, 6, 7} |->
     CASE c = 0 -> "Success"
       [] c = 2 -> "Order is declined because of an error in the payment credentials"
       [] c = 5 -> "Access is denied"
       [] c = 6 -> "Unregistered order Id"
       [] c = 7 -> "System error"]

REFUND_ERROR_CODES ==
  [c \in {0, 5, 6, 7} |->
     CASE c = 0 -> "No system error"
       [] c = 5 -> "Access is denied or invalid amount"
       [] c = 6 -> "Unregistered OrderId"
       [] c = 7 -> "System error or payment in incorrect state"]

\* mapSatimErrorCode looking every operation up in the register table
mapSatimErrorCode_oneTable(endpoint, code) ==
  IF code.d = 0 /\ code.n \in DOMAIN REGISTER_ERROR_CODES
  THEN <<REGISTER_ERROR_CODES[code.n]>>
  ELSE <<"Unknown error code: ">> \o NumberToString(code)

mapSatimErrorCode(endpoint, code) ==
  LET codeMaps == [register |-> REGISTER_ERROR_CODES,
                   confirm |-> CONFIRM_ERROR_CODES,
                   refund |-> REFUND_ERROR_CODES]
      map == codeMaps[endpoint]
  IN IF code.d = 0 /\ code.n \in DOMAIN map
     THEN <<map[code.n]>>
     ELSE <<"Unknown error code: ">> \o NumberToString(code)

\* ------------------------------------------------------------------------
\* Normalisation of gateway fields
\* ------------------------------------------------------------------------

\* normalizeNumber giving -1 for a string that is not a number, as
\* normalizeErrorCode does
normalizeNumber_unparsedIsError(value, defaultValue) ==
  IF IsNullish(value) THEN defaultValue
  ELSE IF value.t = "number" THEN value
  ELSE IF value.t = "string"
       THEN LET parsed == parseInt(value.s)
            IN IF parsed.nan THEN Num(-1) ELSE Num(parsed.n)
  ELSE defaultValue

\* client.ts normalizeNumber(value, defaultValue)
normalizeNumber(value, defaultValue) ==
  IF IsNullish(value) THEN defaultValue
  ELSE IF value.t = "number" THEN value
  ELSE IF value.t = "string"
       THEN LET parsed == parseInt(value.s)
            IN IF parsed.nan THEN defaultValue ELSE Num(parsed.n)
  ELSE defaultValue

\* http.ts normalizeErrorCode(code)
normalizeErrorCode(code) ==
  IF code.t = "number" THEN code
  ELSE IF code.t = "string"
       THEN LET parsed == parseInt(code.s)
            IN IF parsed.nan THEN Num(-1) ELSE Num(parsed.n)
  ELSE Num(-1)

\* ------------------------------------------------------------------------
\* Amounts (amount.ts)
\* ------------------------------------------------------------------------

\* cs.indexOf(ch), counted from 0, -1 when absent
RECURSIVE IndexOf(_, _)
IndexOf(cs, ch) ==
  IF cs = <<>> THEN -1
  ELSE IF Head(cs) = ch THEN 0
  ELSE LET r == IndexOf(Tail(cs), ch) IN IF r = -1 THEN -1 ELSE r + 1

AllDigits(cs) == \A i \in 1..Len(cs) : IsDigit(cs[i])

\* The pattern without its end anchor: /^-?\d+(\.\d+)?/.test(cs)
validFormat_noEnd(cs) ==
  LET body == IF cs # <<>> /\ Head(cs) = "-" THEN Tail(cs) ELSE cs
  IN LeadingDigits(body) # <<>>

\* /^-?\d+(\.\d+)?$/.test(cs)
validFormat(cs) ==
  LET body == IF cs # <<>> /\ Head(cs) = "-" THEN Tail(cs) ELSE cs
      int == LeadingDigits(body)
      rest == SubSeq(body, Len(int) + 1, Len(body))
  IN /\ int # <<>>
     /\ \/ rest = <<>>
        \/ /\ Head(rest) = "."
           /\ Len(rest) >= 2
           /\ AllDigits(Tail(rest))

\* cs without its leading zeros: cs.replace(/^0+/, '')
RECURSIVE StripLeadingZeros(_)
StripLeadingZeros(cs) ==
  IF cs # <<>> /\ Head(cs) = "0" THEN StripLeadingZeros(Tail(cs)) ELSE cs

\* The conversion without the padding of a single decimal digit
convertToMinorUnits_noPad(amountStr) ==
  LET decimalIndex == IndexOf(amountStr, ".")
      integerPart == SubSeq(amountStr, 1, decimalIndex)
      rawDecimal == SubSeq(amountStr, decimalIndex + 2, Len(amountStr))
      decimalPart == IF Len(rawDecimal) <= 2 THEN rawDecimal
                     ELSE SubSeq(rawDecimal, 1, 2)
      combined == integerPart \o decimalPart
      stripped == StripLeadingZeros(combined)
  IN IF decimalIndex = -1 THEN amountStr \o <<"0", "0">>
     ELSE IF stripped = <<>> THEN <<"0">> ELSE stripped

convertToMinorUnits(amountStr) ==
  LET decimalIndex == IndexOf(amountStr, ".")
      integerPart == SubSeq(amountStr, 1, decimalIndex)
      rawDecimal == SubSeq(amountStr, decimalIndex + 2, Len(amountStr))
      decimalPart ==
        IF Len(rawDecimal) = 1 THEN rawDecimal \o <<"0">>
        ELSE IF Len(rawDecimal) = 2 THEN rawDecimal
        ELSE SubSeq(rawDecimal, 1, 2)
      combined == integerPart \o decimalPart
      stripped == StripLeadingZeros(combined)
  IN IF decimalIndex = -1 THEN amountStr \o <<"0", "0">>
     ELSE IF stripped = <<>> THEN <<"0">> ELSE stripped

\* toMinorUnits(amount): the minor-unit string, or the error thrown.  The
\* comparisons of parseFloat(trimmed) are made on the digits: for a string in
\* validFormat, parsed < 0 iff it is signed and has a non-zero digit, and
\* parsed < 50 iff it is negative, or its integer part is below 50.
toMinorUnits(amount) ==
  LET amountStr == IF amount.t = "number" THEN Str(NumberToString(amount))
                   ELSE amount
      trimmed == Trim(amountStr.s)
      signed == trimmed # <<>> /\ Head(trimmed) = "-"
      body == IF signed THEN Tail(trimmed) ELSE trimmed
      nonZero == \E i \in 1..Len(body) : IsDigit(body[i]) /\ body[i] # "0"
      intValue == DigitsToNat(LeadingDigits(body))
      decimalIndex == IndexOf(trimmed, ".")
      decimals == Len(trimmed) - decimalIndex - 1
  IN IF ~Truthy(amountStr)
     THEN Thrown(ValidationError(<<"Amount cannot be empty">>,
                                 "INVALID_AMOUNT", [value |-> amount]))
     ELSE IF amountStr.t # "string"
     THEN Thrown(RuntimeError("TypeError", "toMinorUnits"))
     ELSE IF trimmed = <<>>
     THEN Thrown(ValidationError(<<"Amount cannot be empty">>,
                                 "INVALID_AMOUNT", [value |-> amount]))
     ELSE IF ~validFormat(trimmed)
     THEN Thrown(ValidationError(<<"Amount must be a valid number">>,
                                 "INVALID_AMOUNT", [value |-> amount]))
     ELSE IF signed /\ nonZero
     THEN Thrown(ValidationError(<<"Amount must be non-negative">>,
                                 "INVALID_AMOUNT", [value |-> amount]))
     ELSE IF intValue < MIN_AMOUNT_DZD
     THEN Thrown(ValidationError(
                   <<"Amount must be at least ">>
                     \o NatToChars(MIN_AMOUNT_DZD) \o <<" DZD">>,
                   "INVALID_AMOUNT",
                   [value |-> amount, minimum |-> Num(MIN_AMOUNT_DZD)]))
     ELSE IF decimalIndex # -1 /\ decimals > MAX_DECIMALS
     THEN Thrown(ValidationError(
                   <<"Amount cannot have more than ">>
                     \o NatToChars(MAX_DECIMALS) \o <<" decimal places">>,
                   "INVALID_AMOUNT",
                   [value |-> amount, maxDecimals |-> Num(MAX_DECIMALS)]))
     ELSE Ok(Str(convertToMinorUnits(trimmed)))

\* The number n / 10^d in lowest terms of d
RECURSIVE Decimal(_, _)
Decimal(n, d) ==
  IF d > 0 /\ n % 10 = 0 THEN Decimal(n \div 10, d - 1) ELSE Dec(n, d)

\* fromMinorUnits(minorUnits): the amount in DZD, or the error thrown.
\* isNaN(value) converts a value that is not a number: undefined to NaN, null
\* to 0, and fails on a bigint.
fromMinorUnits(minorUnits) ==
  LET parsed == parseInt(minorUnits.s)
      value == IF minorUnits.t = "string"
               THEN IF parsed.nan THEN NaN ELSE Num(parsed.n)
               ELSE minorUnits
      invalid == ValidationError(<<"Minor units must be a valid number">>,
                                 "INVALID_AMOUNT", [value |-> minorUnits])
  IN CASE value.t = "bigint" ->
            Thrown(RuntimeError("TypeError", "fromMinorUnits"))
       [] value.t = "undefined" -> Thrown(invalid)
       [] value.t = "null" -> Ok(Num(0))
       [] IsNaN(value) -> Thrown(invalid)
       [] OTHER -> Ok(Decimal(value.n, value.d + 2))

\* ------------------------------------------------------------------------
\* Redaction (redact.ts)
\* ------------------------------------------------------------------------

\* Keys are sequences of characters.  An object that redaction walks through
\* is [t |-> "object", entries |-> its [key, value] entries in order], an
\* array is [t |-> "array", items |-> its elements]: typeof is 'object' for
\* both and Array.isArray tells them apart.
FULLY_REDACTED_KEYS ==
  {<<"p", "a", "s", "s", "w", "o", "r", "d">>,
   <<"u", "s", "e", "r", "N", "a", "m", "e">>,
   <<"u", "s", "e", "r", "n", "a", "m", "e">>,
   <<"t", "e", "r", "m", "i", "n", "a", "l", "I", "d">>,
   <<"t", "e", "r", "m", "i", "n", "a", "l", "_", "i", "d">>,
   <<"f", "o", "r", "c", "e", "_", "t", "e", "r", "m", "i", "n", "a", "l", "_", "i", "d">>,
   <<"c", "v", "v">>,
   <<"c", "v", "v", "2">>,
   <<"c", "v", "c">>,
   <<"c", "a", "r", "d", "N", "u", "m", "b", "e", "r">>,
   <<"p", "a", "n">>,
   <<"P", "i", "n">>,
   <<"e", "x", "p", "i", "r", "a", "t", "i", "o", "n">>}

PARTIALLY_REDACTED_KEYS ==
  {<<"o", "r", "d", "e", "r", "I", "d">>,
   <<"m", "d", "O", "r", "d", "e", "r">>,
   <<"O", "r", "d", "e", "r", "N", "u", "m", "b", "e", "r">>}

UpperCase ==
  <<"A", "B", "C", "D", "E", "F", "G", "H", "I", "J", "K", "L", "M",
    "N", "O", "P", "Q", "R", "S", "T", "U", "V", "W", "X", "Y", "Z">>

LowerCase ==
  <<"a", "b", "c", "d", "e", "f", "g", "h", "i", "j", "k", "l", "m",
    "n", "o", "p", "q", "r", "s", "t", "u", "v", "w", "x", "y", "z">>

\* key.toLowerCase()
toLowerCase(cs) ==
  [i \in 1..Len(cs) |->
     IF \E j \in 1..26 : UpperCase[j] = cs[i]
     THEN LowerCase[CHOOSE j \in 1..26 : UpperCase[j] = cs[i]]
     ELSE cs[i]]

\* The key compared with the fully redacted names as they are spelled
IsFullyRedacted_exact(key) == key \in FULLY_REDACTED_KEYS

\* keyLower === redactedKey.toLowerCase() for some fully redacted key
IsFullyRedacted(key) ==
  \E redactedKey \in FULLY_REDACTED_KEYS :
    toLowerCase(key) = toLowerCase(redactedKey)

\* keyLower === partialKey.toLowerCase() for some partially redacted key
IsPartiallyRedacted(key) ==
  \E partialKey \in PARTIALLY_REDACTED_KEYS :
    toLowerCase(key) = toLowerCase(partialKey)

\* typeof value === 'object' && value !== null
IsObject(value) == value.t \in {"object", "array"}

\* String(value)
StringOf(value) ==
  CASE value.t = "string" -> value.s
    [] value.t = "number" -> NumberToString(value)
    [] value.t = "boolean" ->
         IF value.n = 1 THEN <<"t", "r", "u", "e">>
         ELSE <<"f", "a", "l", "s", "e">>
    [] value.t = "object" ->
         <<"[", "o", "b", "j", "e", "c", "t", " ",
           "O", "b", "j", "e", "c", "t", "]">>
    [] OTHER -> <<value.t>>

\* cs.slice(-k)
LastChars(cs, k) ==
  IF Len(cs) <= k THEN cs ELSE SubSeq(cs, Len(cs) - k + 1, Len(cs))

\* redactPartial showing the last characters of a value of exactly that
\* many characters
redactPartial_offByOne(value) ==
  LET str == StringOf(value)
  IN IF Len(str) < PARTIAL_SHOW_CHARS THEN Str(<<"[REDACTED]">>)
     ELSE Str(<<"[REDACTED]...">> \o LastChars(str, PARTIAL_SHOW_CHARS))

redactPartial(value) ==
  LET str == StringOf(value)
  IN IF Len(str) <= PARTIAL_SHOW_CHARS THEN Str(<<"[REDACTED]">>)
     ELSE Str(<<"[REDACTED]...">> \o LastChars(str, PARTIAL_SHOW_CHARS))

redactValue(key, value) ==
  IF IsNullish(value) THEN value
  ELSE IF IsFullyRedacted(key) THEN Str(<<"[REDACTED]">>)
  ELSE IF IsPartiallyRedacted(key) THEN redactPartial(value)
  ELSE value

RECURSIVE redactObject(_)
redactObject(obj) ==
  IF IsNullish(obj) THEN obj
  ELSE IF ~IsObject(obj) THEN obj
  ELSE IF obj.t = "array"
  THEN [obj EXCEPT !.items =
          [i \in 1..Len(obj.items) |-> redactObject(obj.items[i])]]
  ELSE [obj EXCEPT !.entries =
          [i \in 1..Len(obj.entries) |->
             [key |-> obj.entries[i].key,
              value |-> IF IsObject(obj.entries[i].value)
                        THEN redactObject(obj.entries[i].value)
                        ELSE redactValue(obj.entries[i].key,
                                         obj.entries[i].value)]]]

\* A URL string is [origin, query]: what precedes the '?' (a piece, empty
\* when the string has no scheme and host) and the characters that follow it.
UrlString(origin, query) == [t |-> "string", origin |-> origin, query |-> query]

\* cs.split(sep)
RECURSIVE Split(_, _)
Split(cs, sep) ==
  IF IndexOf(cs, sep) = -1 THEN <<cs>>
  ELSE <<SubSeq(cs, 1, IndexOf(cs, sep))>>
       \o Split(SubSeq(cs, IndexOf(cs, sep) + 2, Len(cs)), sep)

\* new URL(url).searchParams: the list of the query's name-value pairs
ParseQuery(query) ==
  LET
      IsNonEmpty(cs) == cs # <<>>
      \* One name=value sequence of a query, as the URL parser reads it
      ParsePair(cs) ==
        IF IndexOf(cs, "=") = -1 THEN [name |-> cs, value |-> <<>>]
        ELSE [name |-> SubSeq(cs, 1, IndexOf(cs, "=")),
              value |-> SubSeq(cs, IndexOf(cs, "=") + 2, Len(cs))]
  IN
  LET parts == SelectSeq(Split(query, "&"), IsNonEmpty)
  IN [i \in 1..Len(parts) |-> ParsePair(parts[i])]

\* The form-urlencoded spelling of a name or value: '[' and ']' are
\* percent-encoded, letters, digits and '_' are left as they are
RECURSIVE UrlEncode(_)
UrlEncode(cs) ==
  IF cs = <<>> THEN <<>>
  ELSE (IF Head(cs) = "[" THEN <<"%", "5", "B">>
        ELSE IF Head(cs) = "]" THEN <<"%", "5", "D">>
        ELSE <<Head(cs)>>) \o UrlEncode(Tail(cs))

\* searchParams.toString()
RECURSIVE SerializeQuery(_)
SerializeQuery(list) ==
  IF list = <<>> THEN <<>>
  ELSE UrlEncode(list[1].name) \o <<"=">> \o UrlEncode(list[1].value)
       \o (IF Len(list) = 1 THEN <<>>
           ELSE <<"&">> \o SerializeQuery(Tail(list)))

\* The pairs of list that are not named name
RECURSIVE DropNamed(_, _)
DropNamed(list, name) ==
  IF list = <<>> THEN <<>>
  ELSE (IF list[1].name = name THEN <<>> ELSE <<list[1]>>)
       \o DropNamed(Tail(list), name)

RedactionMarker == <<"[", "R", "E", "D", "A", "C", "T", "E", "D", "]">>

\* searchParams.set(name, value): the first pair named name takes the value,
\* the other pairs of that name are removed
SetParam(list, name, value) ==
  IF \A i \in 1..Len(list) : list[i].name # name
  THEN Append(list, [name |-> name, value |-> value])
  ELSE LET first == CHOOSE i \in 1..Len(list) :
                      /\ list[i].name = name
                      /\ \A j \in 1..(i - 1) : list[j].name # name
       IN SubSeq(list, 1, first - 1)
          \o <<[name |-> name, value |-> value]>>
          \o DropNamed(SubSeq(list, first + 1, Len(list)), name)

\* The loop of redactUrl over searchParams.keys(), from its i-th step on:
\* the iterator reads the list as the calls of set have left it
RECURSIVE RedactParams(_, _)
RedactParams(list, i) ==
  IF i > Len(list) THEN list
  ELSE RedactParams(IF IsFullyRedacted(list[i].name)
                    THEN SetParam(list, list[i].name, RedactionMarker)
                    ELSE list,
                    i + 1)

\* redactUrl(url): new URL throws on a string without scheme and host; the
\* query is written anew once a parameter has been set
redactUrl(url) ==
  LET searchParams == ParseQuery(url.query)
      redacted == RedactParams(searchParams, 1)
  IN IF url.origin = <<>> THEN Str(<<"[INVALID_URL]">>)
     ELSE IF \E i \in 1..Len(searchParams) :
               IsFullyRedacted(searchParams[i].name)
     THEN UrlString(url.origin, SerializeQuery(redacted))
     ELSE url

\* createSafeLogData handing its input back unfiltered
createSafeLogData_unfiltered(data) == data

\* createSafeLogData emitting every field it knows, null when absent
createSafeLogData_nulls(data) ==
  [k \in {"endpoint", "method", "durationMs", "statusCode", "errorCode",
          "orderId", "mdOrder"} |->
     IF k \in {"orderId", "mdOrder"} /\ Truthy(Get(data, k))
     THEN redactPartial(data[k])
     ELSE Coalesce(Get(data, k), Null)]

createSafeLogData(data) ==
  LET copied == {k \in {"endpoint", "method"} : Truthy(Get(data, k))}
                \cup {k \in {"durationMs", "statusCode", "errorCode"} :
                        Get(data, k) # Undefined}
      masked == {k \in {"orderId", "mdOrder"} : Truthy(Get(data, k))}
  IN [k \in copied \cup masked |->
        IF k \in masked THEN redactPartial(data[k]) ELSE data[k]]

\* ------------------------------------------------------------------------
\* Register parameters (client.ts)
\* ------------------------------------------------------------------------

\* The length test refusing a value already at the maximum
LongerThan_atLeast(v, max) == v.t = "string" /\ Len(v.s) >= max

\* typeof v === 'string' and v.length > max
LongerThan(v, max) == v.t = "string" /\ Len(v.s) > max

\* The error validateRegisterParams throws, NoError when it returns
validateRegisterParams(params) ==
  LET orderNumber == Get(params, "orderNumber")
      returnUrl == Get(params, "returnUrl")
      udf1 == Get(params, "udf1")
      description == Get(params, "description")
      udfFields == <<"udf2", "udf3", "udf4", "udf5">>
      tooLong(i) == /\ Truthy(Get(params, udfFields[i]))
                    /\ LongerThan(Get(params, udfFields[i]), MAX_UDF_LENGTH)
      udfCodes == [udf2 |-> "INVALID_UDF2", udf3 |-> "INVALID_UDF3",
                   udf4 |-> "INVALID_UDF4", udf5 |-> "INVALID_UDF5"]
      lengthDetails(v, max) == [length |-> Num(Len(v.s)), max |-> Num(max)]
  IN IF ~Truthy(orderNumber) \/ orderNumber.t # "string"
     THEN ValidationError(<<"orderNumber is required">>,
                          "INVALID_ORDER_NUMBER", EmptyObject)
     ELSE IF Len(orderNumber.s) > MAX_ORDER_NUMBER_LENGTH
     THEN ValidationError(
            <<"orderNumber exceeds maximum length of ">>
              \o NatToChars(MAX_ORDER_NUMBER_LENGTH),
            "INVALID_ORDER_NUMBER",
            lengthDetails(orderNumber, MAX_ORDER_NUMBER_LENGTH))
     ELSE IF ~Truthy(returnUrl) \/ returnUrl.t # "string"
     THEN ValidationError(<<"returnUrl is required">>,
                          "INVALID_RETURN_URL", EmptyObject)
     ELSE IF ~Truthy(udf1) \/ udf1.t # "string"
     THEN ValidationError(<<"udf1 is required">>, "INVALID_UDF1", EmptyObject)
     ELSE IF Len(udf1.s) > MAX_UDF_LENGTH
     THEN ValidationError(
            <<"udf1 exceeds maximum length of ">> \o NatToChars(MAX_UDF_LENGTH),
            "INVALID_UDF1", lengthDetails(udf1, MAX_UDF_LENGTH))
     ELSE IF \E i \in 1..4 : tooLong(i)
     THEN LET first == CHOOSE i \in 1..4 :
                         tooLong(i) /\ \A j \in 1..(i - 1) : ~tooLong(j)
          IN ValidationError(
               <<udfFields[first], " exceeds maximum length of ">>
                 \o NatToChars(MAX_UDF_LENGTH),
               udfCodes[udfFields[first]],
               lengthDetails(Get(params, udfFields[first]), MAX_UDF_LENGTH))
     ELSE IF Truthy(description)
             /\ LongerThan(description, MAX_DESCRIPTION_LENGTH)
     THEN ValidationError(
            <<"description exceeds maximum length of ">>
              \o NatToChars(MAX_DESCRIPTION_LENGTH),
            "INVALID_DESCRIPTION",
            lengthDetails(description, MAX_DESCRIPTION_LENGTH))
     ELSE NoError

\* The jsonParams object registerOrder builds, as its entries in insertion
\* order
buildJsonParams(terminalId, params) ==
  LET optional == <<"udf2", "udf3", "udf4", "udf5", "fundingTypeIndicator">>
      entry(k) == IF Truthy(Get(params, k))
                  THEN <<[key |-> k, value |-> Get(params, k)]>> ELSE <<>>
  IN <<[key |-> "force_terminal_id", value |-> terminalId],
       [key |-> "udf1", value |-> Get(params, "udf1")]>>
     \o entry(optional[1]) \o entry(optional[2]) \o entry(optional[3])
     \o entry(optional[4]) \o entry(optional[5])

\* JSON.stringify of an object whose values are strings free of characters
\* that need escaping
RECURSIVE StringifyEntries(_)
StringifyEntries(entries) ==
  LET
      \* The characters of the keys of jsonParams
      KeyChars ==
        [force_terminal_id |-> <<"f", "o", "r", "c", "e", "_", "t", "e", "r", "m",
                                 "i", "n", "a", "l", "_", "i", "d">>,
         udf1 |-> <<"u", "d", "f", "1">>,
         udf2 |-> <<"u", "d", "f", "2">>,
         udf3 |-> <<"u", "d", "f", "3">>,
         udf4 |-> <<"u", "d", "f", "4">>,
         udf5 |-> <<"u", "d", "f", "5">>,
         fundingTypeIndicator |-> <<"f", "u", "n", "d", "i", "n", "g", "T", "y",
                                    "p", "e", "I", "n", "d", "i", "c", "a", "t",
                                    "o", "r">>]
  IN
  IF entries = <<>> THEN <<>>
  ELSE LET e == Head(entries)
           one == <<"\"">> \o KeyChars[e.key] \o <<"\"", ":", "\"">>
                  \o StringOf(e.value) \o <<"\"">>
       IN IF Len(entries) = 1 THEN one
          ELSE one \o <<",">> \o StringifyEntries(Tail(entries))

JSONstringify(entries) == <<"{">> \o StringifyEntries(entries) \o <<"}">>

\* ------------------------------------------------------------------------
\* The transport function makeRequest (http.ts)
\* ------------------------------------------------------------------------

joinUrl(base, path) ==
  LET baseClean == IF base # <<>> /\ base[Len(base)] = "/"
                   THEN SubSeq(base, 1, Len(base) - 1) ELSE base
      pathClean == IF path # <<>> /\ Head(path) = "/" THEN path
                   ELSE <<"/">> \o path
  IN baseClean \o pathClean

\* No parameters in this position of a request
NoParams == [none |-> TRUE]

\* The request built with the parameters in the URL whatever the method
buildRequest_paramsInUrl(baseUrl, endpoint, params, method) ==
  [url |-> joinUrl(baseUrl, endpoint), query |-> params,
   method |-> IF method = "GET" THEN "GET" ELSE "POST",
   headers |-> IF method = "GET"
               THEN [Accept |-> "application/json"]
               ELSE [ContentType |-> "application/x-www-form-urlencoded",
                     Accept |-> "application/json"],
   body |-> IF method = "GET" THEN NoParams ELSE params]

\* The url and requestInit handed to the transport.  The query string and the
\* form body are kept as the parameter map they encode.
buildRequest(baseUrl, endpoint, params, method) ==
  IF method = "GET"
  THEN [url |-> joinUrl(baseUrl, endpoint), query |-> params,
        method |-> "GET",
        headers |-> [Accept |-> "application/json"],
        body |-> NoParams]
  ELSE [url |-> joinUrl(baseUrl, endpoint), query |-> NoParams,
        method |-> "POST",
        headers |-> [ContentType |-> "application/x-www-form-urlencoded",
                     Accept |-> "application/json"],
        body |-> params]

\* logger?.level(data, msg)
LogIf(opts, level, data, msg) ==
  IF opts.logger THEN <<[level |-> level, data |-> data, msg |-> msg]>>
  ELSE <<>>

\* The catch clause without its test for AbortError: an abort is handled as
\* any other fault
Catch_abortAsNetwork(error, endpoint, opts, durationMs) ==
  LET data == createSafeLogData([endpoint |-> Str(endpoint),
                                 method |-> Str(<<opts.method>>),
                                 durationMs |-> Num(durationMs)])
  IN IF error.kind \in {"HTTP_ERROR", "TIMEOUT_ERROR"}
     THEN [logs |-> <<>>, error |-> error]
     ELSE [logs |-> LogIf(opts, "error", data,
                          "Satim API request failed with network error"),
           error |-> HttpError(<<"Network error occurred">>, Undefined,
                               CauseOf(error))]

\* The catch clause without its re-throw of known errors: an HttpError raised
\* for a non-2xx response is wrapped like any other fault
Catch_rewrap(error, endpoint, opts, durationMs) ==
  LET data == createSafeLogData([endpoint |-> Str(endpoint),
                                 method |-> Str(<<opts.method>>),
                                 durationMs |-> Num(durationMs)])
  IN IF error.name = "AbortError"
     THEN [logs |-> LogIf(opts, "error", data, "Satim API request timed out"),
           error |-> TimeoutError(
                       <<"Request timed out after ">>
                         \o NatToChars(opts.timeoutMs) \o <<"ms">>,
                       Num(opts.timeoutMs), CauseOf(error))]
     ELSE [logs |-> LogIf(opts, "error", data,
                          "Satim API request failed with network error"),
           error |-> HttpError(<<"Network error occurred">>, Undefined,
                               CauseOf(error))]

\* The catch clause of makeRequest: the records logged and the error thrown
\* for a caught error.
Catch(error, endpoint, opts, durationMs) ==
  LET data == createSafeLogData([endpoint |-> Str(endpoint),
                                 method |-> Str(<<opts.method>>),
                                 durationMs |-> Num(durationMs)])
  IN IF error.name = "AbortError"
     THEN [logs |-> LogIf(opts, "error", data, "Satim API request timed out"),
           error |-> TimeoutError(
                       <<"Request timed out after ">>
                         \o NatToChars(opts.timeoutMs) \o <<"ms">>,
                       Num(opts.timeoutMs), CauseOf(error))]
     ELSE IF error.kind \in {"HTTP_ERROR", "TIMEOUT_ERROR"}
     THEN [logs |-> <<>>, error |-> error]
     ELSE [logs |-> LogIf(opts, "error", data,
                          "Satim API request failed with network error"),
           error |-> HttpError(<<"Network error occurred">>, Undefined,
                               CauseOf(error))]

\* A call of a hook
HookCall(hook, endpoint, arg) == [hook |-> hook, endpoint |-> endpoint, arg |-> arg]

\* The outcome of a call: nothing yet, a returned value, a thrown error
NoOutcome == [state |-> "none", value |-> Undefined, error |-> NoError]

Returned(v) == [state |-> "returned", value |-> v, error |-> NoError]

Threw(e) == [state |-> "threw", value |-> Undefined, error |-> e]

\* makeRequest logging the request parameters along with the endpoint when
\* the request starts
makeRequest_logsParams(baseUrl, endpoint, params, opts) ==
  LET req == buildRequest(baseUrl, endpoint, params, opts.method)
      hooked == IF opts.onRequest # "none"
                THEN <<HookCall("onRequest", endpoint,
                                createSafeLogData(params))>>
                ELSE <<>>
      debug == LogIf(opts, "debug",
                     Put(Put(params, "endpoint", Str(endpoint)),
                         "method", Str(<<opts.method>>)),
                     "Satim API request started")
      thrown == RuntimeError("Error", "onRequest")
      handled == Catch(thrown, endpoint, opts, 0)
  IN IF opts.onRequest = "throws"
     THEN [pc |-> "done", options |-> opts, endpoint |-> endpoint,
           params |-> params, request |-> req, fetchCalls |-> 0,
           timer |-> "cleared", logs |-> handled.logs, hookCalls |-> hooked,
           caught |-> thrown, outcome |-> Threw(handled.error)]
     ELSE [pc |-> "fetching", options |-> opts, endpoint |-> endpoint,
           params |-> params, request |-> req, fetchCalls |-> 1,
           timer |-> "armed", logs |-> debug, hookCalls |-> hooked,
           caught |-> NoError, outcome |-> NoOutcome]

\* makeRequest up to its first await: the request is built, the abort timer is
\* set, the onRequest hook and the debug log run, the transport is invoked.
\* A throwing hook lands in the catch clause before the transport is invoked.
makeRequest(baseUrl, endpoint, params, opts) ==
  LET req == buildRequest(baseUrl, endpoint, params, opts.method)
      hooked == IF opts.onRequest # "none"
                THEN <<HookCall("onRequest", endpoint,
                                createSafeLogData(params))>>
                ELSE <<>>
      debug == LogIf(opts, "debug",
                     createSafeLogData([endpoint |-> Str(endpoint),
                                        method |-> Str(<<opts.method>>)]),
                     "Satim API request started")
      thrown == RuntimeError("Error", "onRequest")
      handled == Catch(thrown, endpoint, opts, 0)
  IN IF opts.onRequest = "throws"
     THEN [pc |-> "done", options |-> opts, endpoint |-> endpoint,
           params |-> params, request |-> req, fetchCalls |-> 0,
           timer |-> "cleared", logs |-> handled.logs, hookCalls |-> hooked,
           caught |-> thrown, outcome |-> Threw(handled.error)]
     ELSE [pc |-> "fetching", options |-> opts, endpoint |-> endpoint,
           params |-> params, request |-> req, fetchCalls |-> 1,
           timer |-> "armed", logs |-> debug, hookCalls |-> hooked,
           caught |-> NoError, outcome |-> NoOutcome]

\* An operation that throws before it reaches makeRequest
Rejected(e) ==
  [pc |-> "done", options |-> NoParams, endpoint |-> <<>>,
   params |-> NoParams, request |-> NoParams, fetchCalls |-> 0,
   timer |-> "none", logs |-> <<>>, hookCalls |-> <<>>,
   caught |-> NoError, outcome |-> Threw(e)]

\* ------------------------------------------------------------------------
\* The operations up to the transport call (client.ts)
\* ------------------------------------------------------------------------

\* The options the client hands to makeRequest: method, timeout and logger,
\* no hooks.
clientOptions(cfg) ==
  [method |-> cfg.httpMethod, timeoutMs |-> cfg.timeoutMs,
   logger |-> cfg.logger, onRequest |-> "none", onResponse |-> "none"]

\* obj with key set to value when value is truthy
PutIfTruthy(obj, key, value) ==
  IF Truthy(value) THEN Put(obj, key, value) ELSE obj

\* registerOrder with the length check of jsonParams made after the gateway
\* call instead of before it
registerOrder_lateCheck(cfg, params) ==
  LET invalid == validateRegisterParams(params)
      amountMinor == toMinorUnits(Get(params, "amount"))
      jsonParamsStr == JSONstringify(buildJsonParams(cfg.terminalId, params))
      requestParams ==
        [userName |-> cfg.userName,
         password |-> cfg.password,
         orderNumber |-> Get(params, "orderNumber"),
         amount |-> amountMinor.value,
         currency |-> Coalesce(Get(params, "currency"), cfg.currency),
         returnUrl |-> Get(params, "returnUrl"),
         language |-> Coalesce(Get(params, "language"), cfg.language),
         jsonParams |-> Str(jsonParamsStr)]
      started == makeRequest(cfg.apiBaseUrl, ENDPOINTS.REGISTER,
                             requestParams, clientOptions(cfg))
  IN IF invalid # NoError THEN Rejected(invalid)
     ELSE IF amountMinor.threw THEN Rejected(amountMinor.error)
     ELSE IF Len(jsonParamsStr) > MAX_JSON_PARAMS_LENGTH
     THEN [started EXCEPT
             !.pc = "done", !.timer = "cleared",
             !.outcome = Threw(ValidationError(
                                 <<"jsonParams exceeds maximum length of ">>
                                   \o NatToChars(MAX_JSON_PARAMS_LENGTH),
                                 "INVALID_JSON_PARAMS", EmptyObject))]
     ELSE started

registerOrder(cfg, params) ==
  LET invalid == validateRegisterParams(params)
      amountMinor == toMinorUnits(Get(params, "amount"))
      jsonParamsStr == JSONstringify(buildJsonParams(cfg.terminalId, params))
      required ==
        [userName |-> cfg.userName,
         password |-> cfg.password,
         orderNumber |-> Get(params, "orderNumber"),
         amount |-> amountMinor.value,
         currency |-> Coalesce(Get(params, "currency"), cfg.currency),
         returnUrl |-> Get(params, "returnUrl"),
         language |-> Coalesce(Get(params, "language"), cfg.language),
         jsonParams |-> Str(jsonParamsStr)]
      requestParams ==
        PutIfTruthy(PutIfTruthy(required, "failUrl", Get(params, "failUrl")),
                    "description", Get(params, "description"))
  IN IF invalid # NoError THEN Rejected(invalid)
     ELSE IF amountMinor.threw THEN Rejected(amountMinor.error)
     ELSE IF Len(jsonParamsStr) > MAX_JSON_PARAMS_LENGTH
     THEN Rejected(ValidationError(
                     <<"jsonParams exceeds maximum length of ">>
                       \o NatToChars(MAX_JSON_PARAMS_LENGTH),
                     "INVALID_JSON_PARAMS",
                     [length |-> Num(Len(jsonParamsStr)),
                      max |-> Num(MAX_JSON_PARAMS_LENGTH)]))
     ELSE makeRequest(cfg.apiBaseUrl, ENDPOINTS.REGISTER, requestParams,
                      clientOptions(cfg))

confirmOrder(cfg, mdOrder, languageOverride) ==
  LET requestParams ==
        [userName |-> cfg.userName,
         password |-> cfg.password,
         mdOrder |-> mdOrder,
         language |-> Coalesce(languageOverride, cfg.language)]
  IN IF ~Truthy(mdOrder) \/ mdOrder.t # "string"
     THEN Rejected(ValidationError(
                     <<"mdOrder is required and must be a string">>,
                     "INVALID_MD_ORDER", EmptyObject))
     ELSE makeRequest(cfg.apiBaseUrl, ENDPOINTS.CONFIRM, requestParams,
                      clientOptions(cfg))

refundOrder(cfg, orderId, amountDzd, languageOverride) ==
  LET amountMinor == toMinorUnits(amountDzd)
      requestParams ==
        [userName |-> cfg.userName,
         password |-> cfg.password,
         orderId |-> orderId,
         amount |-> amountMinor.value,
         currency |-> cfg.currency,
         language |-> Coalesce(languageOverride, cfg.language)]
  IN IF ~Truthy(orderId) \/ orderId.t # "string"
     THEN Rejected(ValidationError(
                     <<"orderId is required and must be a string">>,
                     "INVALID_ORDER_ID", EmptyObject))
     ELSE IF IsNullish(amountDzd)
     THEN Rejected(ValidationError(
                     <<"amountDzd is required for refund">>,
                     "INVALID_AMOUNT",
                     [hint |-> Str(<<"Provide the amount to refund in DZD">>)]))
     ELSE IF amountMinor.threw THEN Rejected(amountMinor.error)
     ELSE makeRequest(cfg.apiBaseUrl, ENDPOINTS.REFUND, requestParams,
                      clientOptions(cfg))

\* ------------------------------------------------------------------------
\* The operations after the transport call (client.ts)
\* ------------------------------------------------------------------------

\* code !== 0
NonZero(code) == code.n # 0

\* registerOrder deciding success on the code alone
registerResult_codeOnly(response) ==
  LET raw == response.data
      errorCode == normalizeNumber(Get(raw, "errorCode"), Num(0))
      orderId == Coalesce(Get(raw, "orderId"), Null)
      formUrl == Coalesce(Get(raw, "formUrl"), Null)
  IN IF raw = Null THEN Threw(RuntimeError("TypeError", "registerOrder"))
     ELSE IF NonZero(errorCode)
     THEN Threw(SatimApiError(mapSatimErrorCode("register", errorCode),
                              "register", errorCode,
                              [orderId |-> Get(raw, "orderId")]))
     ELSE Returned([raw |-> raw, errorCode |-> errorCode,
                    orderId |-> orderId, formUrl |-> formUrl,
                    isSuccessful |-> ~NonZero(errorCode)])

\* registerOrder once makeRequest has returned
registerResult(response) ==
  LET raw == response.data
      errorCode == normalizeNumber(Get(raw, "errorCode"), Num(0))
      orderId == Coalesce(Get(raw, "orderId"), Null)
      formUrl == Coalesce(Get(raw, "formUrl"), Null)
  IN IF raw = Null THEN Threw(RuntimeError("TypeError", "registerOrder"))
     ELSE IF NonZero(errorCode)
     THEN Threw(SatimApiError(mapSatimErrorCode("register", errorCode),
                              "register", errorCode,
                              [orderId |-> Get(raw, "orderId")]))
     ELSE Returned([raw |-> raw, errorCode |-> errorCode,
                    orderId |-> orderId, formUrl |-> formUrl,
                    isSuccessful |-> ~NonZero(errorCode) /\ Truthy(orderId)
                                     /\ Truthy(formUrl)])

\* confirmOrder comparing the gateway's OrderStatus as sent, not normalized
confirmResult_rawStatus(response) ==
  LET raw == response.data
      errorCode == normalizeNumber(Get(raw, "ErrorCode"), Num(0))
      orderStatus == normalizeNumber(Get(raw, "OrderStatus"), Null)
      amount == normalizeNumber(Get(raw, "Amount"), Null)
      isSuccessful == ~NonZero(errorCode)
  IN IF raw = Null THEN Threw(RuntimeError("TypeError", "confirmOrder"))
     ELSE IF NonZero(errorCode)
     THEN Threw(SatimApiError(mapSatimErrorCode("confirm", errorCode),
                              "confirm", errorCode,
                              [orderNumber |-> Get(raw, "OrderNumber")]))
     ELSE Returned([raw |-> raw, errorCode |-> errorCode,
                    orderStatus |-> orderStatus, amount |-> amount,
                    orderNumber |-> Coalesce(Get(raw, "OrderNumber"), Null),
                    pan |-> Coalesce(Get(raw, "Pan"), Null),
                    actionCodeDescription |->
                      Coalesce(Get(raw, "actionCodeDescription"), Null),
                    isSuccessful |-> isSuccessful,
                    isPaid |-> isSuccessful
                               /\ Get(raw, "OrderStatus") = Num(2)])

\* confirmOrder once makeRequest has returned
confirmResult(response) ==
  LET raw == response.data
      errorCode == normalizeNumber(Get(raw, "ErrorCode"), Num(0))
      orderStatus == normalizeNumber(Get(raw, "OrderStatus"), Null)
      amount == normalizeNumber(Get(raw, "Amount"), Null)
      isSuccessful == ~NonZero(errorCode)
  IN IF raw = Null THEN Threw(RuntimeError("TypeError", "confirmOrder"))
     ELSE IF NonZero(errorCode)
     THEN Threw(SatimApiError(mapSatimErrorCode("confirm", errorCode),
                              "confirm", errorCode,
                              [orderNumber |-> Get(raw, "OrderNumber")]))
     ELSE Returned([raw |-> raw, errorCode |-> errorCode,
                    orderStatus |-> orderStatus, amount |-> amount,
                    orderNumber |-> Coalesce(Get(raw, "OrderNumber"), Null),
                    pan |-> Coalesce(Get(raw, "Pan"), Null),
                    actionCodeDescription |->
                      Coalesce(Get(raw, "actionCodeDescription"), Null),
                    isSuccessful |-> isSuccessful,
                    isPaid |-> isSuccessful /\ orderStatus = Num(2)])

\* refundOrder returning the payload with its code normalized in place
refundResult_normalizedRaw(response) ==
  LET raw == response.data
      errorCode == normalizeNumber(Get(raw, "errorCode"), Num(0))
  IN IF raw = Null THEN Threw(RuntimeError("TypeError", "refundOrder"))
     ELSE IF NonZero(errorCode)
     THEN Threw(SatimApiError(mapSatimErrorCode("refund", errorCode),
                              "refund", errorCode,
                              [errorMessage |-> Get(raw, "errorMessage")]))
     ELSE Returned([raw |-> Put(raw, "errorCode", errorCode),
                    errorCode |-> errorCode,
                    errorMessage |-> Coalesce(Get(raw, "errorMessage"), Null),
                    isSuccessful |-> ~NonZero(errorCode)])

\* refundOrder once makeRequest has returned
refundResult(response) ==
  LET raw == response.data
      errorCode == normalizeNumber(Get(raw, "errorCode"), Num(0))
  IN IF raw = Null THEN Threw(RuntimeError("TypeError", "refundOrder"))
     ELSE IF NonZero(errorCode)
     THEN Threw(SatimApiError(mapSatimErrorCode("refund", errorCode),
                              "refund", errorCode,
                              [errorMessage |-> Get(raw, "errorMessage")]))
     ELSE Returned([raw |-> raw, errorCode |-> errorCode,
                    errorMessage |-> Coalesce(Get(raw, "errorMessage"), Null),
                    isSuccessful |-> ~NonZero(errorCode)])

\* What the caller of makeRequest does with the response it returns
Continue(operation, response) ==
  CASE operation = "register" -> registerResult(response)
    [] operation = "confirm" -> confirmResult(response)
    [] operation = "refund" -> refundResult(response)
    [] OTHER -> Returned(response)

\* ------------------------------------------------------------------------
\* Configuration from the environment (env.ts)
\* ------------------------------------------------------------------------

\* new ConfigError(message, missingKeys)
ConfigError(message, missingKeys) ==
  Put(SatimError("ConfigError", message, "CONFIG_ERROR", "CONFIG_INVALID",
                 Undefined, Undefined, [missingKeys |-> missingKeys], NoCause),
      "missingKeys", missingKeys)

\* value.toUpperCase()
toUpperCase(cs) ==
  [i \in 1..Len(cs) |->
     IF \E j \in 1..26 : LowerCase[j] = cs[i]
     THEN UpperCase[CHOOSE j \in 1..26 : LowerCase[j] = cs[i]]
     ELSE cs[i]]

parseLanguage(value) ==
  IF ~Truthy(value) THEN DEFAULTS.LANGUAGE
  ELSE LET lower == toLowerCase(value.s)
       IN IF lower \in {<<"f", "r">>, <<"e", "n">>, <<"a", "r">>}
          THEN Str(lower)
          ELSE DEFAULTS.LANGUAGE

parseHttpMethod(value) ==
  IF ~Truthy(value) THEN DEFAULTS.HTTP_METHOD
  ELSE LET upper == toUpperCase(value.s)
       IN CASE upper = <<"P", "O", "S", "T">> -> "POST"
            [] upper = <<"G", "E", "T">> -> "GET"
            [] OTHER -> DEFAULTS.HTTP_METHOD

parseLogLevel(value) ==
  IF ~Truthy(value) THEN DEFAULTS.LOG_LEVEL
  ELSE LET lower == toLowerCase(value.s)
       IN CASE lower = <<"d", "e", "b", "u", "g">> -> "debug"
            [] lower = <<"i", "n", "f", "o">> -> "info"
            [] lower = <<"w", "a", "r", "n">> -> "warn"
            [] lower = <<"e", "r", "r", "o", "r">> -> "error"
            [] OTHER -> DEFAULTS.LOG_LEVEL

parseNumber(value, defaultValue) ==
  IF ~Truthy(value) THEN defaultValue
  ELSE LET parsed == parseInt(value.s)
       IN IF parsed.nan THEN defaultValue ELSE parsed.n

parseBoolean(value, defaultValue) ==
  IF ~Truthy(value) THEN defaultValue
  ELSE LET lower == toLowerCase(value.s)
       IN CASE lower \in {<<"t", "r", "u", "e">>, <<"1">>, <<"y", "e", "s">>}
                 -> TRUE
            [] lower \in {<<"f", "a", "l", "s", "e">>, <<"0">>, <<"n", "o">>}
                 -> FALSE
            [] OTHER -> defaultValue

\* `${prefix}${key}`, also the property name prefix + key
EnvName(prefix, key) == <<prefix, key>>

\* The required variables that are unset or empty, in the order they are
\* checked
missingKeys_firstOnly(prefix, env) ==
  LET required == <<ENV_VARS.USERNAME, ENV_VARS.PASSWORD, ENV_VARS.TERMINAL_ID>>
      missing == {i \in 1..3 : ~Truthy(Get(env, EnvName(prefix, required[i])))}
  IN IF missing = {} THEN <<>>
     ELSE <<EnvName(prefix, required[CHOOSE i \in missing :
                                       \A j \in missing : i <= j])>>

missingKeys(prefix, env) ==
  LET Missing(key) ==
        IF ~Truthy(Get(env, EnvName(prefix, key)))
        THEN <<EnvName(prefix, key)>>
        ELSE <<>>
  IN Missing(ENV_VARS.USERNAME) \o Missing(ENV_VARS.PASSWORD)
       \o Missing(ENV_VARS.TERMINAL_ID)

\* fromEnv(options); nodeEnv is process.env['NODE_ENV']
fromEnv(options, nodeEnv) ==
  LET
      \* missingKeys.join(', ')
      JoinKeys(keys) ==
        IF keys = <<>> THEN <<>>
        ELSE LET Rest[i \in 1..Len(keys)] ==
                   IF i = Len(keys) THEN keys[i]
                   ELSE keys[i] \o <<", ">> \o Rest[i + 1]
             IN Rest[1]
  IN
  LET prefix == IF options.prefix = Undefined THEN "SATIM_"
                ELSE options.prefix.s[1]
      env == options.env
      getVar(key) == Get(env, EnvName(prefix, key))
      missing == missingKeys(prefix, env)
  IN IF Len(missing) > 0
     THEN Thrown(ConfigError(
            <<"Missing required environment variables: ">> \o JoinKeys(missing),
            missing))
     ELSE Ok([userName |-> getVar(ENV_VARS.USERNAME),
              password |-> getVar(ENV_VARS.PASSWORD),
              terminalId |-> getVar(ENV_VARS.TERMINAL_ID),
              apiBaseUrl |-> Coalesce(getVar(ENV_VARS.API_URL),
                                      API_BASE_URLS.TEST),
              language |-> parseLanguage(getVar(ENV_VARS.LANGUAGE)),
              currency |-> Coalesce(getVar(ENV_VARS.CURRENCY),
                                    DEFAULTS.CURRENCY),
              http |->
                [method |-> parseHttpMethod(getVar(ENV_VARS.HTTP_METHOD)),
                 timeoutMs |-> parseNumber(getVar(ENV_VARS.HTTP_TIMEOUT_MS),
                                           DEFAULTS.TIMEOUT_MS),
                 connectTimeoutMs |->
                   parseNumber(getVar(ENV_VARS.HTTP_CONNECT_TIMEOUT_MS),
                               DEFAULTS.CONNECT_TIMEOUT_MS),
                 verifySSL |-> parseBoolean(getVar(ENV_VARS.HTTP_VERIFY_SSL),
                                            DEFAULTS.VERIFY_SSL)],
              logger |->
                [level |-> parseLogLevel(getVar(ENV_VARS.LOG_LEVEL)),
                 enableDevLogging |->
                   parseBoolean(getVar(ENV_VARS.LOG_DEV),
                                nodeEnv # Str(<<"production">>))]])

\* ------------------------------------------------------------------------
\* Inputs: configurations, arguments, gateway responses
\* ------------------------------------------------------------------------

\* The string of n characters ch
Rep(ch, n) == [i \in 1..n |-> ch]

\* A field left out of an object literal
Absent == [t |-> "absent", n |-> 0, d |-> 0, s |-> <<>>]

\* The object with the fields of f that are not Absent
Object(f) == [k \in {j \in DOMAIN f : f[j] # Absent} |-> f[k]]

SampleOrderId ==
  <<"V", "7", "2", "1", "u", "P", "P", "f", "N", "N", "o", "f", "V", "Q",
    "A", "A", "A", "B", "L", "3">>

Credentials ==
  {[userName |-> Str(<<"test_user">>), password |-> Str(<<"test_password">>),
    terminalId |-> Str(<<"E", "0", "1", "0", "T", "E", "S", "T", "0", "1">>)],
   [userName |-> Str(<<"other_user">>), password |-> Str(<<"other_password">>),
    terminalId |-> Str(<<"E", "0", "1", "0", "P", "R", "O", "D", "9", "9">>)]}

\* The resolved configurations a client is constructed with
Configs ==
  LET
      \* Request timeouts, in ticks of the clock
      TimeoutChoices == {1, 2}
  IN
  {[userName |-> c.userName, password |-> c.password,
    terminalId |-> c.terminalId,
    apiBaseUrl |-> <<"https://test.satim.dz/payment/rest">>,
    language |-> DEFAULTS.LANGUAGE, currency |-> DEFAULTS.CURRENCY,
    httpMethod |-> m, timeoutMs |-> tm, logger |-> lg] :
   c \in Credentials, m \in {"POST", "GET"}, tm \in TimeoutChoices,
   lg \in BOOLEAN}

ValidRegisterParams ==
  [orderNumber |-> Str(<<"O", "R", "D", "0", "0", "1">>),
   amount |-> Num(5000),
   returnUrl |-> Str(<<"https://merchant.com/success">>),
   udf1 |-> Str(<<"I", "N", "V", "0", "0", "1">>)]

\* params with a fundingTypeIndicator that makes the serialized jsonParams
\* total characters long
WithJsonParamsLength(params, total) ==
  LET terminalId == (CHOOSE c \in Credentials : TRUE).terminalId
      one == Put(params, "fundingTypeIndicator", Str(<<"f">>))
      base == Len(JSONstringify(buildJsonParams(terminalId, one))) - 1
  IN Put(params, "fundingTypeIndicator", Str(Rep("f", total - base)))

\* Arguments of register: valid ones, and ones each breaking one rule
RegisterInputs ==
  LET
      \* Arguments with every bounded field exactly at its bound
      RegisterParamsAtBounds ==
        WithJsonParamsLength(
          [orderNumber |-> Str(Rep("9", MAX_ORDER_NUMBER_LENGTH)),
           amount |-> Num(5000),
           returnUrl |-> Str(<<"https://merchant.com/success">>),
           udf1 |-> Str(Rep("u", MAX_UDF_LENGTH)),
           udf2 |-> Str(Rep("v", MAX_UDF_LENGTH)),
           udf3 |-> Str(Rep("w", MAX_UDF_LENGTH)),
           udf4 |-> Str(Rep("x", MAX_UDF_LENGTH)),
           udf5 |-> Str(Rep("y", MAX_UDF_LENGTH)),
           description |-> Str(Rep("d", MAX_DESCRIPTION_LENGTH))],
          MAX_JSON_PARAMS_LENGTH)
  IN
  {ValidRegisterParams,
   [ValidRegisterParams EXCEPT !.amount = Str(<<"8", "0", "6", ".", "5">>)],
   Put(Put(Put(Put(ValidRegisterParams,
                   "udf2", Str(Rep("x", MAX_UDF_LENGTH))),
               "description", Str(<<"d", "e", "s", "c">>)),
           "fundingTypeIndicator", Str(<<"C", "P">>)),
       "idempotencyKey", Str(<<"uuid-1">>)),
   [ValidRegisterParams EXCEPT !.orderNumber = Str(<<>>)],
   [ValidRegisterParams EXCEPT !.orderNumber = Num(42)],
   [ValidRegisterParams EXCEPT
      !.orderNumber = Str(Rep("9", MAX_ORDER_NUMBER_LENGTH + 1))],
   [ValidRegisterParams EXCEPT !.returnUrl = Str(<<>>)],
   [ValidRegisterParams EXCEPT !.udf1 = Undefined],
   [ValidRegisterParams EXCEPT !.udf1 = Str(Rep("u", MAX_UDF_LENGTH + 1))],
   Put(ValidRegisterParams, "udf3", Str(Rep("u", MAX_UDF_LENGTH + 1))),
   Put(ValidRegisterParams, "description",
       Str(Rep("d", MAX_DESCRIPTION_LENGTH + 1))),
   WithJsonParamsLength(ValidRegisterParams, MAX_JSON_PARAMS_LENGTH + 1),
   RegisterParamsAtBounds,
   [ValidRegisterParams EXCEPT !.udf1 = Str(<<>>)],
   Put(ValidRegisterParams, "udf2", Str(Rep("u", MAX_UDF_LENGTH + 1))),
   Put(ValidRegisterParams, "udf4", Str(Rep("u", MAX_UDF_LENGTH + 1))),
   Put(ValidRegisterParams, "udf5", Str(Rep("u", MAX_UDF_LENGTH + 1))),
   [ValidRegisterParams EXCEPT !.amount = Undefined],
   [ValidRegisterParams EXCEPT !.amount = Num(49)],
   [ValidRegisterParams EXCEPT !.amount = Num(-1)],
   [ValidRegisterParams EXCEPT !.amount = Str(<<"a", "b", "c">>)],
   [ValidRegisterParams EXCEPT
      !.amount = Str(<<"1", "0", "0", ".", "1", "2", "3">>)]}

\* Arguments of a direct call of makeRequest
RequestInputs ==
  {[baseUrl |-> b, endpoint |-> ENDPOINTS.CONFIRM,
    params |-> [userName |-> Str(<<"test_user">>),
                password |-> Str(<<"test_password">>),
                mdOrder |-> Str(SampleOrderId),
                jsonParams |-> Str(<<"{\"force_terminal_id\":\"E010TEST01\"}">>)],
    onRequest |-> h1, onResponse |-> h2] :
   b \in {<<"https://test.satim.dz/payment/rest">>,
          <<"https://test.satim.dz/payment/rest", "/">>},
   h1 \in {"none", "returns", "throws"},
   h2 \in {"none", "returns", "throws"}}

\* The gateway's code field: numbers, their strings, unparsable, absent
CodeValues ==
  {Num(0), Str(<<"0">>), Absent, Null, Str(<<"a", "b", "c">>),
   Num(1), Num(5), Num(6), Num(7), Num(14), Num(99), Num(-1),
   Str(<<"3">>), Str(<<"5">>), Str(<<"6">>), Str(<<"4", "2">>)}

\* The objects a gateway may answer each operation with
ResponseBodies ==
  LET
      RegisterBodies ==
        LET
            SampleFormUrl == <<"https://test.satim.dz/payment/epg/payment.html?mdOrder=V721">>
        IN
        {Object([errorCode |-> c, orderId |-> o, formUrl |-> f]) :
         c \in CodeValues,
         o \in {Absent, Str(<<>>), Str(SampleOrderId)},
         f \in {Absent, Str(<<>>), Str(SampleFormUrl)}}
      ConfirmBodies ==
        LET
            StatusValues ==
              {Num(2), Str(<<"2">>), Num(0), Num(-1), Num(1), Num(3), Num(4), Num(6),
               Absent, Null, Str(<<"0">>), Str(<<"6">>), Str(<<"-", "1">>)}
        IN
        {Object([ErrorCode |-> c, OrderStatus |-> st,
                 Amount |-> IF st.t = "string"
                            THEN Str(<<"1", "0", "0", "3", "2", "0">>)
                            ELSE Num(100320),
                 OrderNumber |-> Str(<<"C", "M", "D", "0", "0", "0", "0", "0", "0", "4">>),
                 Pan |-> Str(<<"6280****7215">>)]) :
         c \in CodeValues, st \in StatusValues}
      \* Bodies answered to a direct call of makeRequest
      RequestBodies ==
        {Object([ErrorCode |-> c, OrderStatus |-> Num(2)]) :
         c \in {Num(0), Str(<<"5">>), Str(<<"a", "b", "c">>), Absent, Null}}
      RefundBodies ==
        {Object([errorCode |-> c, errorMessage |-> m]) :
         c \in CodeValues, m \in {Absent, Str(<<"System error">>)}}
  IN
  [register |-> RegisterBodies, confirm |-> ConfirmBodies,
   refund |-> RefundBodies, request |-> RequestBodies]

\* The bodies a gateway may answer an operation with; null is valid JSON too
Bodies(operation) ==
  {Null} \cup
  (CASE operation = "register" -> ResponseBodies.register
     [] operation = "confirm" -> ResponseBodies.confirm
     [] operation = "refund" -> ResponseBodies.refund
     [] OTHER -> ResponseBodies.request)

\* Response.statusText of a status
StatusText(status) ==
  CASE status = 200 -> "OK"
    [] status = 201 -> "Created"
    [] status = 302 -> "Found"
    [] status = 404 -> "Not Found"
    [] OTHER -> "Internal Server Error"

\* A redirection counted among the successful statuses
IsOk_redirect(status) == status >= 200 /\ status < 400

\* Response.ok
IsOk(status) == status >= 200 /\ status <= 299

\* ------------------------------------------------------------------------
\* State
\* ------------------------------------------------------------------------

VARIABLES
  config,     \* the configuration resolved when the client was constructed
  pc,         \* where the call is: "idle", "fetching", "parsing", "done"
  op,         \* "register", "confirm", "refund", or "request" for makeRequest
  args,       \* the arguments of the call
  sent,       \* what makeRequest was given and what it handed the transport
  fetchCalls, \* how many times the transport was invoked
  timer,      \* the abort timer: "none", "armed", "fired", "cleared"
  aborted,    \* controller.signal.aborted
  elapsed,    \* Date.now() - startTime
  response,   \* the Response the transport resolved with
  logs,       \* the calls of the logger, in order
  hookCalls,  \* the calls of the hooks, in order
  caught,     \* the error that reached makeRequest's catch clause
  outcome     \* what the call returned or threw

vars == <<config, pc, op, args, sent, fetchCalls, timer, aborted, elapsed,
          response, logs, hookCalls, caught, outcome>>

NoResponse ==
  [status |-> 0, statusText |-> "", durationMs |-> 0, parsed |-> FALSE,
   data |-> Undefined]

Init ==
  /\ config \in Configs
  /\ pc = "idle"
  /\ op = ""
  /\ args = NoParams
  /\ sent = NoParams
  /\ fetchCalls = 0
  /\ timer = "none"
  /\ aborted = FALSE
  /\ elapsed = 0
  /\ response = NoResponse
  /\ logs = <<>>
  /\ hookCalls = <<>>
  /\ caught = NoError
  /\ outcome = NoOutcome

\* A call starts: r is what its code has done when it first awaits or throws
Start(operation, a, r) ==
  /\ pc = "idle"
  /\ pc' = r.pc
  /\ op' = operation
  /\ args' = a
  /\ sent' = [options |-> r.options, endpoint |-> r.endpoint,
              params |-> r.params, request |-> r.request]
  /\ fetchCalls' = r.fetchCalls
  /\ timer' = r.timer
  /\ logs' = r.logs
  /\ hookCalls' = r.hookCalls
  /\ caught' = r.caught
  /\ outcome' = r.outcome
  /\ UNCHANGED <<config, aborted, elapsed, response>>

\* client.register(params)
Register(params) == Start("register", params, registerOrder(config, params))

\* client.confirm(mdOrder, languageOverride)
Confirm(a) ==
  Start("confirm", a, confirmOrder(config, a.mdOrder, a.language))

\* client.refund(orderId, amountDzd, languageOverride)
Refund(a) ==
  Start("refund", a, refundOrder(config, a.orderId, a.amountDzd, a.language))

\* makeRequest(baseUrl, endpoint, params, options) called with hooks
Request(a) ==
  Start("request", a,
        makeRequest(a.baseUrl, a.endpoint, a.params,
                    [clientOptions(config) EXCEPT
                       !.onRequest = a.onRequest,
                       !.onResponse = a.onResponse]))

Pending == pc \in {"fetching", "parsing"}

\* makeRequest settling by throwing without its finally clause: the timer is
\* left as it is
Fail_timerLeft(error) ==
  LET handled == Catch(error, sent.endpoint, sent.options, elapsed)
  IN /\ pc' = "done"
     /\ timer' = timer
     /\ caught' = error
     /\ logs' = logs \o handled.logs
     /\ outcome' = Threw(handled.error)

\* makeRequest settles by throwing: the catch clause, then finally
Fail(error) ==
  LET handled == Catch(error, sent.endpoint, sent.options, elapsed)
  IN /\ pc' = "done"
     /\ timer' = "cleared"
     /\ caught' = error
     /\ logs' = logs \o handled.logs
     /\ outcome' = Threw(handled.error)

\* Time passes while the call is awaiting.  A timer that is due fires before
\* more time passes, and an aborted transport rejects at once.
Tick ==
  /\ Pending
  /\ ~aborted
  /\ elapsed < MaxTime
  /\ timer = "armed" => elapsed < sent.options.timeoutMs
  /\ elapsed' = elapsed + 1
  /\ UNCHANGED <<config, pc, op, args, sent, fetchCalls, timer, aborted,
                 response, logs, hookCalls, caught, outcome>>

\* The timer set by setTimeout(() => controller.abort(), timeoutMs) fires
Timeout ==
  /\ timer = "armed"
  /\ elapsed >= sent.options.timeoutMs
  /\ timer' = "fired"
  /\ aborted' = TRUE
  /\ UNCHANGED <<config, pc, op, args, sent, fetchCalls, elapsed, response,
                 logs, hookCalls, caught, outcome>>

\* The transport, or the reading of the body, rejects with an AbortError
\* because the signal was aborted
AbortRejects ==
  /\ Pending
  /\ aborted
  /\ Fail(RuntimeError("AbortError", "abort"))
  /\ UNCHANGED <<config, op, args, sent, fetchCalls, aborted, elapsed,
                 response, hookCalls>>

\* The transport resolves with a Response: a non-2xx status is logged and
\* thrown as an HttpError, which the catch clause sees
FetchResolves(status) ==
  /\ pc = "fetching"
  /\ ~aborted
  /\ response' = [status |-> status, statusText |-> StatusText(status),
                  durationMs |-> elapsed, parsed |-> FALSE,
                  data |-> Undefined]
  /\ IF IsOk(status)
     THEN /\ pc' = "parsing"
          /\ UNCHANGED <<timer, logs, caught, outcome>>
     ELSE LET warned ==
                LogIf(sent.options, "warn",
                      createSafeLogData(
                        [endpoint |-> Str(sent.endpoint),
                         method |-> Str(<<sent.options.method>>),
                         durationMs |-> Num(elapsed),
                         statusCode |-> Num(status)]),
                      "Satim API request failed with HTTP error")
              thrown ==
                HttpError(<<"HTTP error: ">> \o NatToChars(status)
                            \o <<" ", StatusText(status)>>,
                          Num(status), NoCause)
              handled == Catch(thrown, sent.endpoint, sent.options, elapsed)
          IN /\ pc' = "done"
             /\ timer' = "cleared"
             /\ caught' = thrown
             /\ logs' = logs \o warned \o handled.logs
             /\ outcome' = Threw(handled.error)
  /\ UNCHANGED <<config, op, args, sent, fetchCalls, aborted, elapsed,
                 hookCalls>>

\* A network fault answered by calling the transport a second time
FetchRejects_retry ==
  /\ pc = "fetching"
  /\ ~aborted
  /\ IF fetchCalls < 2
     THEN /\ fetchCalls' = fetchCalls + 1
          /\ UNCHANGED <<pc, timer, caught, logs, outcome>>
     ELSE /\ Fail(RuntimeError("TypeError", "fetch"))
          /\ UNCHANGED fetchCalls
  /\ UNCHANGED <<config, op, args, sent, aborted, elapsed, response,
                 hookCalls>>

\* The transport rejects: a network fault
FetchRejects ==
  /\ pc = "fetching"
  /\ ~aborted
  /\ Fail(RuntimeError("TypeError", "fetch"))
  /\ UNCHANGED <<config, op, args, sent, fetchCalls, aborted, elapsed,
                 response, hookCalls>>

\* response.json() rejects: the body is not JSON
JsonRejects ==
  /\ pc = "parsing"
  /\ ~aborted
  /\ Fail(RuntimeError("SyntaxError", "json"))
  /\ UNCHANGED <<config, op, args, sent, fetchCalls, aborted, elapsed,
                 response, hookCalls>>

\* response.json() resolves with data: the onResponse hook, the info log,
\* the return of makeRequest, and what its caller makes of the response
JsonResolves(data) ==
  /\ pc = "parsing"
  /\ ~aborted
  /\ LET opts == sent.options
         hooked == IF opts.onResponse # "none"
                   THEN <<HookCall("onResponse", sent.endpoint, data)>>
                   ELSE <<>>
         logData == createSafeLogData(
                      [endpoint |-> Str(sent.endpoint),
                       method |-> Str(<<opts.method>>),
                       durationMs |-> Num(response.durationMs),
                       statusCode |-> Num(response.status)])
         errorCode == Coalesce(Get(data, "errorCode"), Get(data, "ErrorCode"))
         logged == IF errorCode # Undefined
                   THEN Put(logData, "satimErrorCode",
                            normalizeErrorCode(errorCode))
                   ELSE logData
     IN /\ hookCalls' = hookCalls \o hooked
        /\ response' = [response EXCEPT !.parsed = TRUE, !.data = data]
        /\ IF opts.onResponse = "throws"
           THEN Fail(RuntimeError("Error", "onResponse"))
           ELSE /\ pc' = "done"
                /\ timer' = "cleared"
                /\ caught' = NoError
                /\ logs' = logs \o LogIf(opts, "info", logged,
                                         "Satim API request completed")
                /\ outcome' = Continue(op, [status |-> response.status,
                                            data |-> data,
                                            durationMs |-> response.durationMs])
  /\ UNCHANGED <<config, op, args, sent, fetchCalls, aborted, elapsed>>

Next ==
  LET
      ConfirmInputs ==
        {[mdOrder |-> m, language |-> l] :
         m \in {Str(SampleOrderId), Str(<<>>), Undefined, Num(123)},
         l \in {Undefined, Str(<<"en">>)}}
      RefundInputs ==
        {[orderId |-> o, amountDzd |-> a, language |-> Undefined] :
         o \in {Str(SampleOrderId), Str(<<>>), Num(123)},
         a \in {Num(5000), Dec(8065, 1), Undefined, Null, Num(49),
                Str(<<"-", "1", "0", "0">>)}}
      \* HTTP statuses a gateway may answer with
      HttpStatuses == {200, 201, 302, 404, 500}
  IN
  \/ \E params \in RegisterInputs : Register(params)
  \/ \E a \in ConfirmInputs : Confirm(a)
  \/ \E a \in RefundInputs : Refund(a)
  \/ \E a \in RequestInputs : Request(a)
  \/ Tick
  \/ Timeout
  \/ AbortRejects
  \/ \E status \in HttpStatuses : FetchResolves(status)
  \/ FetchRejects
  \/ JsonRejects
  \/ \E data \in Bodies(op) : JsonResolves(data)

Spec == Init /\ [][Next]_vars

\* The scheduling the runtime guarantees: time passes, a due timer fires, and
\* a transport whose signal is aborted rejects.
FairSpec ==
  Spec /\ WF_vars(Tick) /\ WF_vars(Timeout) /\ WF_vars(AbortRejects)

\* ------------------------------------------------------------------------
\* The amount helpers called on their own
\* ------------------------------------------------------------------------

\* Longest amount string of which every spelling is tried
MaxAmountLen == 4

\* The arguments toMinorUnits and fromMinorUnits are called with
AmountInputs ==
  LET
      \* The characters amount strings are spelled with
      AmountChars == {"0", "5", "9", ".", "-", " ", "a"}
      \* Amounts and minor units of the tests and the documentation, and their
      \* neighbours
      AmountStrings ==
        {Str(<<"8", "0", "6", ".", "5">>), Str(<<"8", "0", "6", ".", "5", "0">>),
         Str(<<"5", "0", ".", "0", "1">>), Str(<<"5", "0", ".", "1", "2", "3">>),
         Str(<<"1", "0", "0", ".", "0">>), Str(<<"4", "9", ".", "9", "9">>),
         Str(<<"0", "5", "0", ".", "5">>), Str(<<" ", "5", "0", "0", "0", " ">>),
         Str(<<"-", "1", "0", "0", ".", "5">>), Str(<<"0", "0", "1", "0", "0">>),
         Str(<<"8", "0", "6", "5", "0">>), Str(<<"5", "0", "0", "0", "0", "0">>),
         Str(<<"1", "0", "0", "3", "2">>), Str(<<"1", "2", "a", "b", "c">>),
         Str(<<"i", "n", "v", "a", "l", "i", "d">>),
         Str(<<"1", "2", ".", "5", "0">>), Str(<<"1", "e", "3">>)}
      AmountNumbers ==
        {Num(0), Num(49), Num(50), Num(5000), Num(999999), Num(-100), Num(80650),
         Num(10032), Num(500000), Dec(8065, 1), Dec(5001, 2), Dec(50123, 3),
         Dec(5, 1), Dec(4999, 2), Dec(-5005, 1), NaN}
      AmountBigInts ==
        {BigInt(0), BigInt(49), BigInt(50), BigInt(5000), BigInt(999999),
         BigInt(-100)}
  IN
  {Str(cs) : cs \in UNION {[1..k -> AmountChars] : k \in 0..MaxAmountLen}}
  \cup AmountStrings \cup AmountNumbers \cup AmountBigInts
  \cup {Undefined, Null}

\* What a call that returned or threw leaves to its caller
Outcome(r) == IF r.threw THEN Threw(r.error) ELSE Returned(r.value)

AmountInit ==
  /\ config \in {c \in Configs : /\ c.userName = Str(<<"test_user">>)
                                 /\ c.httpMethod = DEFAULTS.HTTP_METHOD
                                 /\ c.timeoutMs = 1
                                 /\ ~c.logger}
  /\ pc = "idle"
  /\ op = ""
  /\ args \in {[amount |-> a] : a \in AmountInputs}
  /\ sent = NoParams
  /\ fetchCalls = 0
  /\ timer = "none"
  /\ aborted = FALSE
  /\ elapsed = 0
  /\ response = NoResponse
  /\ logs = <<>>
  /\ hookCalls = <<>>
  /\ caught = NoError
  /\ outcome = NoOutcome

\* toMinorUnits(amount)
ToMinorUnits ==
  /\ pc = "idle"
  /\ pc' = "done"
  /\ op' = "toMinorUnits"
  /\ outcome' = Outcome(toMinorUnits(args.amount))
  /\ UNCHANGED <<config, args, sent, fetchCalls, timer, aborted, elapsed,
                 response, logs, hookCalls, caught>>

\* fromMinorUnits(minorUnits)
FromMinorUnits ==
  /\ pc = "idle"
  /\ pc' = "done"
  /\ op' = "fromMinorUnits"
  /\ outcome' = Outcome(fromMinorUnits(args.amount))
  /\ UNCHANGED <<config, args, sent, fetchCalls, timer, aborted, elapsed,
                 response, logs, hookCalls, caught>>

\* fromMinorUnits(toMinorUnits(amount)): the second call, on the string the
\* first returned
FromMinorUnitsBack ==
  /\ pc = "done"
  /\ op = "toMinorUnits"
  /\ outcome.state = "returned"
  /\ op' = "fromMinorUnits(toMinorUnits)"
  /\ outcome' = Outcome(fromMinorUnits(outcome.value))
  /\ UNCHANGED <<config, pc, args, sent, fetchCalls, timer, aborted, elapsed,
                 response, logs, hookCalls, caught>>

AmountNext == ToMinorUnits \/ FromMinorUnits \/ FromMinorUnitsBack

AmountSpec == AmountInit /\ [][AmountNext]_vars

\* ------------------------------------------------------------------------
\* The redaction helpers called on their own
\* ------------------------------------------------------------------------

\* Deepest nesting of the objects and arrays handed to redactObject
MaxDepth == 2

\* Most parameters in the query of a URL handed to redactUrl
MaxParams == 3

Obj(entries) == [t |-> "object", entries |-> entries]

Arr(items) == [t |-> "array", items |-> items]

Entry(key, value) == [key |-> key, value |-> value]

SecretChars == <<"s", "e", "c", "r", "e", "t", "1", "2", "3">>

TreeKeys ==
  {<<"p", "a", "s", "s", "w", "o", "r", "d">>, <<"P", "a", "n">>, <<"o", "r", "d", "e", "r", "I", "d">>, <<"a", "m", "o", "u", "n", "t">>}

TreeLeaves == {Str(SecretChars), Str(SampleOrderId), Num(5000), Null}

\* Objects and arrays nested up to depth d
RECURSIVE Trees(_)
Trees(d) ==
  IF d = 0 THEN TreeLeaves
  ELSE Trees(d - 1)
       \cup {Obj(<<Entry(k, v)>>) : k \in TreeKeys, v \in Trees(d - 1)}
       \cup {Obj(<<Entry(<<"a", "m", "o", "u", "n", "t">>, Num(100)), Entry(k, v)>>) :
               k \in TreeKeys \ {<<"a", "m", "o", "u", "n", "t">>}, v \in Trees(d - 1)}
       \cup {Arr(<<v>>) : v \in Trees(d - 1)}
       \cup {Arr(<<v, w>>) : v \in Trees(d - 1), w \in TreeLeaves}

\* name=value&name=value...
RECURSIVE JoinQuery(_)
JoinQuery(list) ==
  IF list = <<>> THEN <<>>
  ELSE list[1].name \o <<"=">> \o list[1].value
       \o (IF Len(list) = 1 THEN <<>> ELSE <<"&">> \o JoinQuery(Tail(list)))

RedactInputs ==
  LET
      Urls ==
        LET
            Queries ==
              LET
                  ParamNames ==
                    {<<"p", "a", "s", "s", "w", "o", "r", "d">>, <<"P", "A", "S", "S", "W", "O", "R", "D">>, <<"u", "s", "e", "r", "N", "a", "m", "e">>, <<"a", "m", "o", "u", "n", "t">>}
                  QueryValues == {<<"s", "e", "c", "r", "e", "t">>, <<"5", "0", "0", "0">>}
              IN
              {JoinQuery(l) :
                 l \in UNION {[1..k -> [name : ParamNames, value : QueryValues]] :
                                k \in 0..MaxParams}}
        IN
        {UrlString(o, q) :
           o \in {<<"https://test.satim.dz/payment/rest/register.do">>, <<>>},
           q \in Queries}
        \cup {UrlString(<<>>, <<"n", "o", "t", "-", "a", "-", "v", "a", "l", "i", "d", "-", "u", "r", "l">>)}
      \* Keys spelled as in the key lists, in another case, and keys not listed
      ValueKeys ==
        FULLY_REDACTED_KEYS \cup PARTIALLY_REDACTED_KEYS
        \cup {<<"P", "A", "S", "S", "W", "O", "R", "D">>,
              <<"P", "a", "n">>,
              <<"C", "V", "V">>,
              <<"U", "S", "E", "R", "N", "A", "M", "E">>,
              <<"o", "r", "d", "e", "r", "n", "u", "m", "b", "e", "r">>,
              <<"M", "D", "O", "R", "D", "E", "R">>,
              <<"a", "m", "o", "u", "n", "t">>,
              <<"c", "u", "r", "r", "e", "n", "c", "y">>,
              <<"o", "r", "d", "e", "r", "I", "d", "e", "n", "t", "i", "f", "i", "e", "r">>}
      ValueValues ==
        {Str(SecretChars), Str(<<>>), Str(<<"1", "2", "3", "4", "5", "6">>),
         Str(<<"1", "2", "3", "4", "5", "6", "7">>), Str(SampleOrderId), Num(500000),
         Num(1234567), Bool(TRUE), Null, Undefined, Obj(<<>>),
         Obj(<<Entry(<<"c", "v", "v">>, Str(<<"1", "2", "3">>))>>)}
      LogDataInputs ==
        {Object([endpoint |-> e, method |-> m, durationMs |-> du, statusCode |-> st,
                 errorCode |-> ec, orderId |-> o, mdOrder |-> md, password |-> pw]) :
           e \in {Absent, Str(<<"/register.do">>), Str(<<>>)},
           m \in {Absent, Str(<<"POST">>)},
           du \in {Absent, Num(150), Num(0), Undefined},
           st \in {Absent, Num(200)},
           ec \in {Absent, Num(6), Num(0), Null},
           o \in {Absent, Str(SampleOrderId), Str(<<"1", "2", "3", "4", "5", "6">>), Str(<<>>)},
           md \in {Absent, Str(SampleOrderId)},
           pw \in {Absent, Str(SecretChars)}}
  IN
  {[key |-> k, value |-> v] : k \in ValueKeys, v \in ValueValues}
  \cup {[obj |-> o] : o \in Trees(MaxDepth)}
  \cup {[url |-> u] : u \in Urls}
  \cup {[data |-> d] : d \in LogDataInputs}

RedactInit ==
  /\ config \in {c \in Configs : /\ c.userName = Str(<<"test_user">>)
                                 /\ c.httpMethod = DEFAULTS.HTTP_METHOD
                                 /\ c.timeoutMs = 1
                                 /\ ~c.logger}
  /\ pc = "idle"
  /\ op = ""
  /\ args \in RedactInputs
  /\ sent = NoParams
  /\ fetchCalls = 0
  /\ timer = "none"
  /\ aborted = FALSE
  /\ elapsed = 0
  /\ response = NoResponse
  /\ logs = <<>>
  /\ hookCalls = <<>>
  /\ caught = NoError
  /\ outcome = NoOutcome

\* A helper that cannot throw is called and returns
Returns(name, value) ==
  /\ pc = "idle"
  /\ pc' = "done"
  /\ op' = name
  /\ outcome' = Returned(value)
  /\ UNCHANGED <<config, args, sent, fetchCalls, timer, aborted, elapsed,
                 response, logs, hookCalls, caught>>

RedactValue ==
  /\ "key" \in DOMAIN args
  /\ Returns("redactValue", redactValue(args.key, args.value))

RedactObject ==
  /\ "obj" \in DOMAIN args
  /\ Returns("redactObject", redactObject(args.obj))

RedactUrl ==
  /\ "url" \in DOMAIN args
  /\ Returns("redactUrl", redactUrl(args.url))

CreateSafeLogData ==
  /\ "data" \in DOMAIN args
  /\ Returns("createSafeLogData", createSafeLogData(args.data))

RedactNext == RedactValue \/ RedactObject \/ RedactUrl \/ CreateSafeLogData

RedactSpec == RedactInit /\ [][RedactNext]_vars

\* ------------------------------------------------------------------------
\* fromEnv called on its own
\* ------------------------------------------------------------------------

\* The prefixes of the documentation: the default one and a custom one
EnvPrefixes == {"SATIM_", "PAYMENT_"}

EnvInputs ==
  LET
      PrefixOptions == {Undefined} \cup {Str(<<p>>) : p \in EnvPrefixes}
      \* What a required variable may hold: nothing, the empty string, a value
      RequiredChoices(name) == {Undefined, Str(<<>>), Str(<<"value of ">> \o name)}
      ApiUrlChoices == {Undefined, Str(<<>>), API_BASE_URLS.PRODUCTION}
      \* The optional variables: all unset, all set to accepted spellings, all set
      \* to spellings that are not accepted, and a mixture
      OptionalProfiles ==
        {EmptyObject,
         [k \in {ENV_VARS.LANGUAGE, ENV_VARS.CURRENCY, ENV_VARS.HTTP_METHOD,
                 ENV_VARS.HTTP_TIMEOUT_MS, ENV_VARS.HTTP_CONNECT_TIMEOUT_MS,
                 ENV_VARS.HTTP_VERIFY_SSL, ENV_VARS.LOG_LEVEL, ENV_VARS.LOG_DEV} |->
            CASE k = ENV_VARS.LANGUAGE -> Str(<<"E", "N">>)
              [] k = ENV_VARS.CURRENCY -> Str(<<"9", "7", "8">>)
              [] k = ENV_VARS.HTTP_METHOD -> Str(<<"g", "e", "t">>)
              [] k = ENV_VARS.HTTP_TIMEOUT_MS -> Str(<<"5", "0", "0", "0">>)
              [] k = ENV_VARS.HTTP_CONNECT_TIMEOUT_MS -> Str(<<"2", "0", "0", "0">>)
              [] k = ENV_VARS.HTTP_VERIFY_SSL -> Str(<<"N", "o">>)
              [] k = ENV_VARS.LOG_LEVEL -> Str(<<"W", "A", "R", "N">>)
              [] OTHER -> Str(<<"1">>)],
         [k \in {ENV_VARS.LANGUAGE, ENV_VARS.CURRENCY, ENV_VARS.HTTP_METHOD,
                 ENV_VARS.HTTP_TIMEOUT_MS, ENV_VARS.HTTP_CONNECT_TIMEOUT_MS,
                 ENV_VARS.HTTP_VERIFY_SSL, ENV_VARS.LOG_LEVEL, ENV_VARS.LOG_DEV} |->
            CASE k = ENV_VARS.LANGUAGE -> Str(<<"d", "e">>)
              [] k = ENV_VARS.CURRENCY -> Str(<<>>)
              [] k = ENV_VARS.HTTP_METHOD -> Str(<<"p", "u", "t">>)
              [] k = ENV_VARS.HTTP_TIMEOUT_MS -> Str(<<"a", "b", "c">>)
              [] k = ENV_VARS.HTTP_CONNECT_TIMEOUT_MS -> Str(<<>>)
              [] k = ENV_VARS.HTTP_VERIFY_SSL -> Str(<<"m", "a", "y", "b", "e">>)
              [] k = ENV_VARS.LOG_LEVEL -> Str(<<"t", "r", "a", "c", "e">>)
              [] OTHER -> Str(<<"o", "n">>)],
         [k \in {ENV_VARS.LANGUAGE, ENV_VARS.HTTP_TIMEOUT_MS, ENV_VARS.LOG_DEV} |->
            CASE k = ENV_VARS.LANGUAGE -> Str(<<"a", "r">>)
              [] k = ENV_VARS.HTTP_TIMEOUT_MS -> Str(<<"1", "5", "s">>)
              [] OTHER -> Str(<<"f", "a", "l", "s", "e">>)]}
      \* An environment: the variables under the prefix that is read are those of
      \* own, and every variable of the other prefix is set
      Environment(prefix, own) ==
        LET other == CHOOSE p \in EnvPrefixes : p # prefix
            set == {k \in DOMAIN own : own[k] # Undefined}
        IN [name \in {EnvName(prefix, k) : k \in set}
                       \cup {EnvName(other, k) :
                               k \in {ENV_VARS.USERNAME, ENV_VARS.PASSWORD,
                                      ENV_VARS.TERMINAL_ID, ENV_VARS.API_URL}} |->
              IF name[1] = prefix THEN own[name[2]]
              ELSE Str(<<"value of ", name[1], name[2]>>)]
  IN
  {[options |->
      [prefix |-> p,
       env |-> Environment(IF p = Undefined THEN "SATIM_" ELSE p.s[1],
                           Put(Put(Put(Put(o, ENV_VARS.USERNAME, u),
                                       ENV_VARS.PASSWORD, w),
                                   ENV_VARS.TERMINAL_ID, t),
                               ENV_VARS.API_URL, a))],
    nodeEnv |-> n] :
     p \in PrefixOptions,
     u \in RequiredChoices(<<ENV_VARS.USERNAME>>),
     w \in RequiredChoices(<<ENV_VARS.PASSWORD>>),
     t \in RequiredChoices(<<ENV_VARS.TERMINAL_ID>>),
     a \in ApiUrlChoices, o \in OptionalProfiles,
     n \in {Undefined, Str(<<"production">>)}}

EnvInit ==
  /\ config \in {c \in Configs : /\ c.userName = Str(<<"test_user">>)
                                 /\ c.httpMethod = DEFAULTS.HTTP_METHOD
                                 /\ c.timeoutMs = 1
                                 /\ ~c.logger}
  /\ pc = "idle"
  /\ op = ""
  /\ args \in EnvInputs
  /\ sent = NoParams
  /\ fetchCalls = 0
  /\ timer = "none"
  /\ aborted = FALSE
  /\ elapsed = 0
  /\ response = NoResponse
  /\ logs = <<>>
  /\ hookCalls = <<>>
  /\ caught = NoError
  /\ outcome = NoOutcome

FromEnv ==
  /\ pc = "idle"
  /\ "options" \in DOMAIN args
  /\ pc' = "done"
  /\ op' = "fromEnv"
  /\ outcome' = Outcome(fromEnv(args.options, args.nodeEnv))
  /\ UNCHANGED <<config, args, sent, fetchCalls, timer, aborted, elapsed,
                 response, logs, hookCalls, caught>>

EnvNext == FromEnv

EnvSpec == EnvInit /\ [][EnvNext]_vars

\* ------------------------------------------------------------------------
\* Several calls in flight on one client
\* ------------------------------------------------------------------------

\* Number of calls issued on the client.  Each call has its own activation
\* of the operation and of makeRequest: its position, arguments, request,
\* abort controller, timer, start time, response and outcome are the i-th
\* components of the variables.  The resolved configuration is the one
\* object all calls close over.
MaxCalls == 2

Calls == 1..MaxCalls

\* The operation of the client that input names, applied to its arguments
Invoke(cfg, input) ==
  CASE input.operation = "register" -> registerOrder(cfg, input.a)
    [] input.operation = "confirm" ->
         confirmOrder(cfg, input.a.mdOrder, input.a.language)
    [] OTHER ->
         refundOrder(cfg, input.a.orderId, input.a.amountDzd, input.a.language)

ConcurrentInit ==
  LET
      ConcurrentConfigs ==
        {c \in Configs : /\ c.userName = Str(<<"test_user">>)
                         /\ c.httpMethod = DEFAULTS.HTTP_METHOD
                         /\ c.timeoutMs = 1
                         /\ ~c.logger}
  IN
  /\ config \in ConcurrentConfigs
  /\ pc = [i \in Calls |-> "idle"]
  /\ op = [i \in Calls |-> ""]
  /\ args = [i \in Calls |-> EmptyObject]
  /\ sent = [i \in Calls |-> NoParams]
  /\ fetchCalls = [i \in Calls |-> 0]
  /\ timer = [i \in Calls |-> "none"]
  /\ aborted = [i \in Calls |-> FALSE]
  /\ elapsed = [i \in Calls |-> 0]
  /\ response = [i \in Calls |-> NoResponse]
  /\ logs = <<>>
  /\ hookCalls = <<>>
  /\ caught = [i \in Calls |-> NoError]
  /\ outcome = [i \in Calls |-> NoOutcome]

\* client.register / confirm / refund is called: call i runs up to its first
\* await
Issue(i, input) ==
  LET r == Invoke(config, input)
  IN /\ pc[i] = "idle"
     /\ pc' = [pc EXCEPT ![i] = r.pc]
     /\ op' = [op EXCEPT ![i] = input.operation]
     /\ args' = [args EXCEPT ![i] = input.a]
     /\ sent' = [sent EXCEPT ![i] = [options |-> r.options,
                                     endpoint |-> r.endpoint,
                                     params |-> r.params,
                                     request |-> r.request]]
     /\ fetchCalls' = [fetchCalls EXCEPT ![i] = r.fetchCalls]
     /\ timer' = [timer EXCEPT ![i] = r.timer]
     /\ caught' = [caught EXCEPT ![i] = r.caught]
     /\ outcome' = [outcome EXCEPT ![i] = r.outcome]
     /\ UNCHANGED <<config, aborted, elapsed, response, logs, hookCalls>>

InFlight(i) == pc[i] \in {"fetching", "parsing"}

\* makeRequest of call i settles by throwing: the catch clause, then finally
\* with clearTimeout of the call's own timeoutId
CallFails(i, error) ==
  LET handled == Catch(error, sent[i].endpoint, sent[i].options, elapsed[i])
  IN /\ pc' = [pc EXCEPT ![i] = "done"]
     /\ timer' = [timer EXCEPT ![i] = "cleared"]
     /\ caught' = [caught EXCEPT ![i] = error]
     /\ outcome' = [outcome EXCEPT ![i] = Threw(handled.error)]

\* Time passes for every call in flight; a timer that is due fires first
TimePasses ==
  /\ \E i \in Calls : InFlight(i)
  /\ \A i \in Calls :
       InFlight(i) => /\ ~aborted[i]
                      /\ elapsed[i] < MaxTime
                      /\ timer[i] = "armed"
                           => elapsed[i] < sent[i].options.timeoutMs
  /\ elapsed' = [i \in Calls |->
                   IF InFlight(i) THEN elapsed[i] + 1 ELSE elapsed[i]]
  /\ UNCHANGED <<config, pc, op, args, sent, fetchCalls, timer, aborted,
                 response, logs, hookCalls, caught, outcome>>

\* One controller shared by the calls: the timer of call i aborts every call
\* in flight
CallTimeout_sharedController(i) ==
  /\ timer[i] = "armed"
  /\ elapsed[i] >= sent[i].options.timeoutMs
  /\ timer' = [timer EXCEPT ![i] = "fired"]
  /\ aborted' = [j \in Calls |-> aborted[j] \/ j = i \/ InFlight(j)]
  /\ UNCHANGED <<config, pc, op, args, sent, fetchCalls, elapsed, response,
                 logs, hookCalls, caught, outcome>>

\* The timer of call i fires and aborts the controller of call i
CallTimeout(i) ==
  /\ timer[i] = "armed"
  /\ elapsed[i] >= sent[i].options.timeoutMs
  /\ timer' = [timer EXCEPT ![i] = "fired"]
  /\ aborted' = [aborted EXCEPT ![i] = TRUE]
  /\ UNCHANGED <<config, pc, op, args, sent, fetchCalls, elapsed, response,
                 logs, hookCalls, caught, outcome>>

CallAbortRejects(i) ==
  /\ InFlight(i)
  /\ aborted[i]
  /\ CallFails(i, RuntimeError("AbortError", "abort"))
  /\ UNCHANGED <<config, op, args, sent, fetchCalls, aborted, elapsed,
                 response, logs, hookCalls>>

CallFetchResolves(i, status) ==
  /\ pc[i] = "fetching"
  /\ ~aborted[i]
  /\ response' = [response EXCEPT
                    ![i] = [status |-> status,
                            statusText |-> StatusText(status),
                            durationMs |-> elapsed[i], parsed |-> FALSE,
                            data |-> Undefined]]
  /\ IF IsOk(status)
     THEN /\ pc' = [pc EXCEPT ![i] = "parsing"]
          /\ UNCHANGED <<timer, caught, outcome>>
     ELSE CallFails(i, HttpError(<<"HTTP error: ">> \o NatToChars(status)
                                   \o <<" ", StatusText(status)>>,
                                 Num(status), NoCause))
  /\ UNCHANGED <<config, op, args, sent, fetchCalls, aborted, elapsed, logs,
                 hookCalls>>

CallFetchRejects(i) ==
  /\ pc[i] = "fetching"
  /\ ~aborted[i]
  /\ CallFails(i, RuntimeError("TypeError", "fetch"))
  /\ UNCHANGED <<config, op, args, sent, fetchCalls, aborted, elapsed,
                 response, logs, hookCalls>>

CallJsonRejects(i) ==
  /\ pc[i] = "parsing"
  /\ ~aborted[i]
  /\ CallFails(i, RuntimeError("SyntaxError", "json"))
  /\ UNCHANGED <<config, op, args, sent, fetchCalls, aborted, elapsed,
                 response, logs, hookCalls>>

CallJsonResolves(i, data) ==
  /\ pc[i] = "parsing"
  /\ ~aborted[i]
  /\ response' = [response EXCEPT ![i].parsed = TRUE, ![i].data = data]
  /\ pc' = [pc EXCEPT ![i] = "done"]
  /\ timer' = [timer EXCEPT ![i] = "cleared"]
  /\ outcome' = [outcome EXCEPT
                   ![i] = Continue(op[i],
                                   [status |-> response[i].status,
                                    data |-> data,
                                    durationMs |-> response[i].durationMs])]
  /\ UNCHANGED <<config, op, args, sent, fetchCalls, aborted, elapsed, logs,
                 hookCalls, caught>>

ConcurrentNext ==
  LET
      \* The calls issued: each operation, accepted and refused arguments
      ConcurrentInputs ==
        {[operation |-> "register",
          a |-> [ValidRegisterParams EXCEPT !.orderNumber = Str(<<>>)]],
         [operation |-> "confirm",
          a |-> [mdOrder |-> Str(SampleOrderId), language |-> Undefined]],
         [operation |-> "confirm",
          a |-> [mdOrder |-> Str(<<>>), language |-> Undefined]],
         [operation |-> "refund",
          a |-> [orderId |-> Str(SampleOrderId), amountDzd |-> Num(5000),
                 language |-> Undefined]]}
      \* What the gateway answers a call with
      ConcurrentBodies(operation) ==
        CASE operation = "confirm" ->
               {Object([ErrorCode |-> c, OrderStatus |-> Num(2)]) :
                  c \in {Str(<<"0">>), Num(5)}}
          [] OTHER ->
               {Object([errorCode |-> c, errorMessage |-> Absent]) :
                  c \in {Num(0), Num(7)}}
      ConcurrentStatuses == {200, 500}
  IN
  \/ \E i \in Calls, input \in ConcurrentInputs : Issue(i, input)
  \/ TimePasses
  \/ \E i \in Calls : CallTimeout(i)
  \/ \E i \in Calls : CallAbortRejects(i)
  \/ \E i \in Calls, status \in ConcurrentStatuses : CallFetchResolves(i, status)
  \/ \E i \in Calls : CallFetchRejects(i)
  \/ \E i \in Calls : CallJsonRejects(i)
  \/ \E i \in Calls : \E data \in ConcurrentBodies(op[i]) :
       CallJsonResolves(i, data)

ConcurrentSpec == ConcurrentInit /\ [][ConcurrentNext]_vars

\* ------------------------------------------------------------------------
\* Properties
\* ------------------------------------------------------------------------

Operations == {"register", "confirm", "refund"}

\* The call was made through the client and has settled
Settled == pc = "done" /\ op \in Operations

\* The call failed with an error of the given kind
Failed(kind) == outcome.state = "threw" /\ outcome.error.kind = kind

\* C1: whenever register, confirm or refund fails with a ValidationError, the
\* transport has not been invoked for that call: nothing was handed to fetch,
\* no timer was set, no request was built.
C1_ValidationBeforeTransport ==
  (op \in Operations /\ Failed("VALIDATION_ERROR"))
    => (fetchCalls = 0 /\ timer = "none" /\ sent.request = NoParams)

\* register rejected for its oversized jsonParams, the last check it makes
C1_Witness ==
  /\ op = "register"
  /\ Failed("VALIDATION_ERROR")
  /\ outcome.error.code = "INVALID_JSON_PARAMS"
  /\ fetchCalls = 0

\* The name of the code field an operation reads
CodeField(operation) ==
  IF operation = "confirm" THEN "ErrorCode" ELSE "errorCode"

\* The code table of an operation
CodeTable(operation) ==
  CASE operation = "register" -> REGISTER_ERROR_CODES
    [] operation = "confirm" -> CONFIRM_ERROR_CODES
    [] OTHER -> REFUND_ERROR_CODES

\* The numeric codes the property is stated for: every non-zero code of a
\* table, and codes no table knows
GatewayCodes == {-1, 1, 2, 3, 4, 5, 6, 7, 14, 42, 99}

\* The decimal digits of each of them
CodeDigits == [k \in GatewayCodes |-> NumberToString(Num(k))]

\* C2: a parsed 2xx response whose code field is the non-zero number k, or
\* the string of k, makes the operation throw a SatimApiError carrying the
\* operation's name, the number k and the description of k in the
\* operation's own table, or 'Unknown error code: k' when the table lacks k.
C2_GatewayErrorCode ==
  (Settled /\ response.parsed)
    => \A k \in GatewayCodes :
         (/\ k # 0
          /\ Get(response.data, CodeField(op))
               \in {Num(k), Str(CodeDigits[k])})
         => /\ outcome.state = "threw"
            /\ outcome.error.name = "SatimApiError"
            /\ outcome.error.kind = "API_ERROR"
            /\ outcome.error.endpoint = op
            /\ outcome.error.satimErrorCode = Num(k)
            /\ outcome.error.message =
                 IF k \in DOMAIN CodeTable(op)
                 THEN <<CodeTable(op)[k]>>
                 ELSE <<"Unknown error code: ">> \o CodeDigits[k]

\* confirm answered with the code "6" as a string, which only the confirm and
\* refund tables know, each under its own description
C2_Witness ==
  /\ Settled
  /\ op = "confirm"
  /\ response.parsed
  /\ Get(response.data, "ErrorCode") = Str(<<"6">>)
  /\ Failed("API_ERROR")
  /\ outcome.error.satimErrorCode = Num(6)
  /\ outcome.error.message = <<"Unregistered order Id">>

\* C3: when the transport has produced no response, or no body, by the
\* configured timeoutMs, the timer aborts the request and the call fails with
\* a TimeoutError carrying the configured timeoutMs; no call stays pending
\* beyond its timeout.
C3_TimeoutAborts ==
  /\ [](Pending => elapsed <= config.timeoutMs)
  /\ [][(timer = "armed" /\ timer' = "fired") => aborted']_vars
  /\ []((pc = "done" /\ aborted)
          => /\ Failed("TIMEOUT_ERROR")
             /\ outcome.error.name = "TimeoutError"
             /\ outcome.error.timeoutMs = Num(config.timeoutMs))
  /\ (aborted ~> (pc = "done" /\ Failed("TIMEOUT_ERROR")))
  /\ (Pending ~> (pc = "done"))

\* A call that timed out once its whole timeout had elapsed
C3_Witness ==
  /\ pc = "done"
  /\ aborted
  /\ elapsed = config.timeoutMs
  /\ Failed("TIMEOUT_ERROR")
  /\ outcome.error.timeoutMs = Num(config.timeoutMs)

\* The transport answered with a status outside 200..299
NonOkResponse == response.status # 0 /\ ~IsOk(response.status)

C5_NoRetry ==
  /\ [](fetchCalls <= 1)
  /\ [][fetchCalls' # fetchCalls => (pc = "idle" /\ fetchCalls' = 1)]_vars
  /\ [](pc = "done" => outcome.state \in {"returned", "threw"})
  /\ [](caught # NoError => (pc = "done" /\ outcome.state = "threw"))
  /\ []((Settled /\ response.parsed
         /\ \E k \in GatewayCodes \ {0} :
              Get(response.data, CodeField(op)) = Num(k))
          => outcome.state = "threw")

\* A call whose transport rejected: one invocation, and the failure thrown
C5_Witness ==
  /\ Settled
  /\ fetchCalls = 1
  /\ caught.name = "TypeError"
  /\ Failed("HTTP_ERROR")

\* The keys of a record handed to the logger
LogKeys == {"endpoint", "method", "durationMs", "statusCode", "satimErrorCode"}

\* The values of the request parameters
ParamValues ==
  IF sent.params = NoParams THEN {}
  ELSE {sent.params[k] : k \in DOMAIN sent.params}

\* The values of the configured credentials
CredentialValues == {config.userName, config.password, config.terminalId}

\* C6: every record makeRequest hands to the logger has only the keys
\* endpoint, method, durationMs, statusCode and satimErrorCode, each holding
\* the endpoint, the method, a duration, the response's status and the
\* gateway's code, and holds no value of a credential or of any request
\* parameter.
C6_LogsCarryNoParameter ==
  \A i \in 1..Len(logs) :
    /\ DOMAIN logs[i].data \subseteq LogKeys
    /\ logs[i].data.endpoint = Str(sent.endpoint)
    /\ logs[i].data.method = Str(<<sent.options.method>>)
    /\ "durationMs" \in DOMAIN logs[i].data
         => logs[i].data.durationMs \in {Num(t) : t \in 0..elapsed}
    /\ "statusCode" \in DOMAIN logs[i].data
         => logs[i].data.statusCode = Num(response.status)
    /\ "satimErrorCode" \in DOMAIN logs[i].data
         => logs[i].data.satimErrorCode
              = normalizeErrorCode(Coalesce(Get(response.data, "errorCode"),
                                            Get(response.data, "ErrorCode")))
    /\ \A k \in DOMAIN logs[i].data :
         logs[i].data[k] \notin ParamValues \cup CredentialValues

\* register logged from start to completion
C6_Witness ==
  /\ Settled
  /\ op = "register"
  /\ Len(logs) = 2
  /\ logs[1].level = "debug"
  /\ logs[2].level = "info"
  /\ "satimErrorCode" \in DOMAIN logs[2].data

\* The sensitive values of a request: its credentials and the jsonParams
\* holding the terminal id
SensitiveValues ==
  CredentialValues
  \cup (IF sent.params = NoParams THEN {}
        ELSE {sent.params[k] :
                k \in DOMAIN sent.params
                      \cap {"userName", "password", "jsonParams"}})

\* C7: the parameter map handed to onRequest has no userName, password or
\* jsonParams key and none of their values; onResponse is handed the parsed
\* response as it is.
C7_HookSeesRedactedParams ==
  \A i \in 1..Len(hookCalls) :
    /\ hookCalls[i].hook = "onRequest"
         => /\ DOMAIN hookCalls[i].arg
                 \cap {"userName", "password", "jsonParams"} = {}
            /\ \A k \in DOMAIN hookCalls[i].arg :
                 hookCalls[i].arg[k] \notin SensitiveValues
    /\ hookCalls[i].hook = "onResponse"
         => hookCalls[i].arg = response.data

\* Both hooks called: onRequest with the order identifier masked
C7_Witness ==
  /\ pc = "done"
  /\ Len(hookCalls) = 2
  /\ hookCalls[1].hook = "onRequest"
  /\ hookCalls[1].arg =
       [mdOrder |-> Str(<<"[REDACTED]...", "A", "A", "A", "B", "L", "3">>)]
  /\ hookCalls[2].hook = "onResponse"
  /\ hookCalls[2].arg # Null

\* C8: a throwing hook does not keep makeRequest from performing the request
\* and returning the gateway response.
C8_HooksNeverBlock ==
  /\ (op = "request" /\ pc # "idle" /\ args.onRequest = "throws")
       => fetchCalls = 1
  /\ (op = "request" /\ pc = "done" /\ response.parsed
      /\ "throws" \in {args.onRequest, args.onResponse})
       => /\ outcome.state = "returned"
          /\ outcome.value.data = response.data

\* typeof v === 'string' and v is not empty
NonEmptyString(v) == v.t = "string" /\ Len(v.s) > 0

\* C9: a register result is successful iff its code is 0 and the gateway sent
\* a non-empty orderId and a non-empty formUrl; a code-0 response lacking one
\* of them is returned, as a result that is not successful.
C9_RegisterSuccess ==
  (Settled /\ op = "register")
    => /\ outcome.state = "returned"
            => (outcome.value.isSuccessful
                  <=> /\ outcome.value.errorCode = Num(0)
                      /\ NonEmptyString(Get(outcome.value.raw, "orderId"))
                      /\ NonEmptyString(Get(outcome.value.raw, "formUrl")))
       /\ (/\ response.parsed
           /\ Get(response.data, "errorCode") \in {Num(0), Str(<<"0">>)}
           /\ \/ ~NonEmptyString(Get(response.data, "orderId"))
              \/ ~NonEmptyString(Get(response.data, "formUrl")))
            => /\ outcome.state = "returned"
               /\ ~outcome.value.isSuccessful

\* A code-0 registration without formUrl: returned, not successful
C9_Witness ==
  /\ Settled
  /\ op = "register"
  /\ outcome.state = "returned"
  /\ outcome.value.errorCode = Num(0)
  /\ "orderId" \in DOMAIN outcome.value.raw
  /\ "formUrl" \notin DOMAIN outcome.value.raw
  /\ ~outcome.value.isSuccessful

\* C10: a confirm result is successful iff its code is 0 and paid iff it is
\* successful and its normalized orderStatus is 2, which it is for an
\* OrderStatus of 2 and of "2"; for 0, -1, 1, 3, 4, 6 or none it is not paid.
C10_ConfirmPaid ==
  (Settled /\ op = "confirm" /\ outcome.state = "returned")
    => LET r == outcome.value
           st == Get(r.raw, "OrderStatus")
       IN /\ r.isSuccessful <=> r.errorCode = Num(0)
          /\ r.isPaid <=> (r.isSuccessful /\ r.orderStatus = Num(2))
          /\ st \in {Num(2), Str(<<"2">>)}
               => (r.orderStatus = Num(2) /\ r.isPaid)
          /\ st \in {Num(0), Num(-1), Num(1), Num(3), Num(4), Num(6),
                     Undefined}
               => ~r.isPaid

\* A confirmation whose OrderStatus came as the string "2": paid
C10_Witness ==
  /\ Settled
  /\ op = "confirm"
  /\ outcome.state = "returned"
  /\ Get(outcome.value.raw, "OrderStatus") = Str(<<"2">>)
  /\ outcome.value.orderStatus = Num(2)
  /\ outcome.value.isPaid

\* C11: the raw field of every result returned by register, confirm or
\* refund is the payload as parsed from the response; a code sent as the
\* string "0" is still that string in raw while errorCode is the number 0.
C11_RawVerbatim ==
  (Settled /\ outcome.state = "returned")
    => /\ response.parsed
       /\ outcome.value.raw = response.data
       /\ Get(response.data, CodeField(op)) = Str(<<"0">>)
            => /\ Get(outcome.value.raw, CodeField(op)) = Str(<<"0">>)
               /\ outcome.value.errorCode = Num(0)

\* A refund answered with the code "0": the string is kept in raw
C11_Witness ==
  /\ Settled
  /\ op = "refund"
  /\ outcome.state = "returned"
  /\ Get(outcome.value.raw, "errorCode") = Str(<<"0">>)
  /\ outcome.value.errorCode = Num(0)

\* The amount as text: a number in its decimal notation, a string trimmed
AmountText(a) ==
  Trim(IF a.t = "number" THEN NumberToString(a) ELSE a.s)

\* The text without its sign
Unsigned(t) == IF t # <<>> /\ Head(t) = "-" THEN Tail(t) ELSE t

\* The digits before and after the decimal point of an unsigned text
IntegerDigits(u) ==
  IF IndexOf(u, ".") = -1 THEN u ELSE SubSeq(u, 1, IndexOf(u, "."))

FractionDigits(u) ==
  IF IndexOf(u, ".") = -1 THEN <<>>
  ELSE SubSeq(u, IndexOf(u, ".") + 2, Len(u))

\* An optional sign, digits, and optionally a point followed by digits
IsDecimalText(t) ==
  LET u == Unsigned(t)
  IN /\ IntegerDigits(u) # <<>>
     /\ AllDigits(IntegerDigits(u))
     /\ AllDigits(FractionDigits(u))
     /\ IndexOf(u, ".") # -1 => FractionDigits(u) # <<>>

\* The amount times 100, for a decimal text with at most 2 fraction digits
Hundredths(t) ==
  LET u == Unsigned(t)
      f == FractionDigits(u)
  IN DigitsToNat(IntegerDigits(u)) * 100
     + (IF Len(f) = 0 THEN 0
        ELSE IF Len(f) = 1 THEN DigitsToNat(f) * 10
        ELSE DigitsToNat(f))

\* The amount is one toMinorUnits has to refuse: empty or blank, not a
\* decimal text, negative, below the minimum, or with too many decimals
RefusedAmount(a) ==
  LET t == AmountText(a)
      u == Unsigned(t)
  IN \/ t = <<>>
     \/ ~IsDecimalText(t)
     \/ t # u /\ \E i \in 1..Len(u) : u[i] \notin {"0", "."}
     \/ DigitsToNat(IntegerDigits(u)) < MIN_AMOUNT_DZD
     \/ Len(FractionDigits(u)) > MAX_DECIMALS

\* C12: toMinorUnits of a string or a number throws ValidationError with
\* code INVALID_AMOUNT when the amount is empty or blank, is not an optional
\* sign, digits and optional '.digits', is negative, is below 50 or has more
\* than 2 fraction digits; otherwise it returns a string of digits whose
\* value is the amount times 100.
C12_ToMinorUnits ==
  (pc = "done" /\ op = "toMinorUnits"
   /\ args.amount.t \in {"string", "number"})
    => IF RefusedAmount(args.amount)
       THEN /\ Failed("VALIDATION_ERROR")
            /\ outcome.error.name = "ValidationError"
            /\ outcome.error.code = "INVALID_AMOUNT"
       ELSE /\ outcome.state = "returned"
            /\ outcome.value.t = "string"
            /\ outcome.value.s # <<>>
            /\ AllDigits(outcome.value.s)
            /\ DigitsToNat(outcome.value.s)
                 = Hundredths(AmountText(args.amount))

\* "806.5" converted to "80650"
C12_Witness ==
  /\ pc = "done"
  /\ op = "toMinorUnits"
  /\ args.amount = Str(<<"8", "0", "6", ".", "5">>)
  /\ outcome.state = "returned"
  /\ outcome.value = Str(<<"8", "0", "6", "5", "0">>)

\* C13: the string toMinorUnits returns has no leading zero, unless it is
\* "0" itself.
C13_NoLeadingZeros ==
  (pc = "done" /\ op = "toMinorUnits" /\ outcome.state = "returned")
    => \/ outcome.value.s = <<"0">>
       \/ /\ outcome.value.s # <<>>
          /\ Head(outcome.value.s) # "0"

\* C14: toMinorUnits of a bigint n returns the digits of n * 100 when n is at
\* least 50, and throws ValidationError with code INVALID_AMOUNT otherwise:
\* 'non-negative' for a negative n, 'at least 50 DZD' for one below 50.
C14_BigIntAmounts ==
  (pc = "done" /\ op = "toMinorUnits" /\ args.amount.t = "bigint")
    => IF args.amount.n < 0
       THEN /\ Failed("VALIDATION_ERROR")
            /\ outcome.error.code = "INVALID_AMOUNT"
            /\ outcome.error.message = <<"Amount must be non-negative">>
       ELSE IF args.amount.n < MIN_AMOUNT_DZD
       THEN /\ Failed("VALIDATION_ERROR")
            /\ outcome.error.code = "INVALID_AMOUNT"
            /\ outcome.error.message
                 = <<"Amount must be at least ">>
                   \o NatToChars(MIN_AMOUNT_DZD) \o <<" DZD">>
       ELSE /\ outcome.state = "returned"
            /\ outcome.value = Str(NatToChars(args.amount.n * 100))

\* C15: for an amount a that toMinorUnits accepts (a decimal of at most 2
\* fraction digits, at least 50), fromMinorUnits(toMinorUnits(a)) returns the
\* number a: the same number when a is one, the number a string a spells.
C15_RoundTrip ==
  (pc = "done" /\ op = "fromMinorUnits(toMinorUnits)")
    => /\ ~RefusedAmount(args.amount)
       /\ outcome.state = "returned"
       /\ outcome.value.t = "number"
       /\ ~IsNaN(outcome.value)
       /\ outcome.value.d <= 2
       /\ outcome.value.n * Pow10(2 - outcome.value.d)
            = Hundredths(AmountText(args.amount))
       /\ args.amount.t = "number" => outcome.value = args.amount

\* "806.50" converted and converted back: the number 806.5
C15_Witness ==
  /\ pc = "done"
  /\ op = "fromMinorUnits(toMinorUnits)"
  /\ args.amount = Str(<<"8", "0", "6", ".", "5", "0">>)
  /\ outcome.state = "returned"
  /\ outcome.value = Dec(8065, 1)

\* The minor units are an integer: a number without fraction, or a string
\* that spells one (blanks around it and a sign allowed)
IsIntegerInput(m) ==
  IF m.t = "number" THEN ~IsNaN(m) /\ m.d = 0
  ELSE LET t == Trim(m.s)
           u == IF t # <<>> /\ Head(t) \in {"-", "+"} THEN Tail(t) ELSE t
       IN u # <<>> /\ AllDigits(u)

\* The integer such an input stands for
IntegerOf(m) ==
  IF m.t = "number" THEN m.n
  ELSE LET t == Trim(m.s)
       IN IF Head(t) = "-" THEN 0 - DigitsToNat(Tail(t))
          ELSE IF Head(t) = "+" THEN DigitsToNat(Tail(t))
          ELSE DigitsToNat(t)

\* C16: fromMinorUnits of a number or a string returns the integer it holds
\* divided by 100, and throws ValidationError for every input that is not a
\* valid integer.
C16_FromMinorUnits ==
  (pc = "done" /\ op = "fromMinorUnits"
   /\ args.amount.t \in {"string", "number"})
    => IF IsIntegerInput(args.amount)
       THEN /\ outcome.state = "returned"
            /\ outcome.value.t = "number"
            /\ outcome.value.d <= 2
            /\ outcome.value.n * Pow10(2 - outcome.value.d)
                 = IntegerOf(args.amount)
       ELSE /\ Failed("VALIDATION_ERROR")
            /\ outcome.error.name = "ValidationError"

\* What the claim has redactObject return: in every object, at every depth,
\* a value under a fully redacted key is replaced by the marker whatever its
\* type, a value under an order-identifier key is masked, and everything else
\* is kept, objects and arrays being walked through.
RECURSIVE RedactedCopy(_)
RedactedCopy(v) ==
  IF ~IsObject(v) THEN v
  ELSE IF v.t = "array"
  THEN Arr([i \in 1..Len(v.items) |-> RedactedCopy(v.items[i])])
  ELSE Obj([i \in 1..Len(v.entries) |->
              LET e == v.entries[i]
              IN Entry(e.key,
                       IF IsNullish(e.value) THEN e.value
                       ELSE IF IsFullyRedacted(e.key)
                       THEN Str(<<"[REDACTED]">>)
                       ELSE IF IsPartiallyRedacted(e.key) /\ ~IsObject(e.value)
                       THEN redactPartial(e.value)
                       ELSE RedactedCopy(e.value))])

\* C17: redactObject replaces the value under every fully redacted key, at
\* every depth and whatever the value's type (an array or an object too),
\* masks order identifiers, and leaves the rest unchanged.
C17_RedactObject ==
  (pc = "done" /\ op = "redactObject")
    => outcome.value = RedactedCopy(args.obj)

\* Two keys are equal ignoring case
EqualIgnoringCase(a, b) ==
  /\ Len(a) = Len(b)
  /\ \A i \in 1..Len(a) :
       \/ a[i] = b[i]
       \/ \E j \in 1..26 : {a[i], b[i]} = {UpperCase[j], LowerCase[j]}

\* C18: redactValue(key, value) returns a null or undefined value as it is;
\* otherwise '[REDACTED]' for a key that is a fully redacted name ignoring
\* case; for a key that is orderId, mdOrder or OrderNumber ignoring case,
\* '[REDACTED]...' and the last 6 characters of a value longer than 6
\* characters, '[REDACTED]' for a shorter one; for any other key the value.
C18_RedactValue ==
  (pc = "done" /\ op = "redactValue")
    => LET str == StringOf(args.value)
       IN IF args.value \in {Null, Undefined}
          THEN outcome.value = args.value
          ELSE IF \E name \in FULLY_REDACTED_KEYS :
                    EqualIgnoringCase(args.key, name)
          THEN outcome.value = Str(<<"[REDACTED]">>)
          ELSE IF \E name \in PARTIALLY_REDACTED_KEYS :
                    EqualIgnoringCase(args.key, name)
          THEN IF Len(str) > 6
               THEN outcome.value
                      = Str(<<"[REDACTED]...">>
                            \o SubSeq(str, Len(str) - 5, Len(str)))
               ELSE outcome.value = Str(<<"[REDACTED]">>)
          ELSE outcome.value = args.value

\* redactValue('orderId', 'V721uPPfNNofVQAAABL3') is '[REDACTED]...AAABL3'
C18_Witness ==
  /\ pc = "done"
  /\ op = "redactValue"
  /\ args.key = <<"o", "r", "d", "e", "r", "I", "d">>
  /\ args.value = Str(SampleOrderId)
  /\ outcome.value = Str(<<"[REDACTED]...", "A", "A", "A", "B", "L", "3">>)

\* The name of a query parameter is a fully redacted name, ignoring case
IsSensitiveParam(p) ==
  \E name \in FULLY_REDACTED_KEYS : EqualIgnoringCase(p.name, name)

IsOtherParam(p) == ~IsSensitiveParam(p)

OperationalFields ==
  {"endpoint", "method", "durationMs", "statusCode", "errorCode"}

IdentifierFields == {"orderId", "mdOrder"}

\* The input has the field, with a value
Present(data, k) == k \in DOMAIN data /\ data[k] # Undefined

\* An identifier is emitted masked: the marker alone, or the marker and the
\* last 6 characters of an identifier longer than that
Masked(emitted, identifier) ==
  /\ emitted # identifier
  /\ \/ emitted = Str(<<"[REDACTED]">>)
     \/ /\ Len(identifier.s) > 6
        /\ emitted = Str(<<"[REDACTED]...">>
                         \o SubSeq(identifier.s, Len(identifier.s) - 5,
                                   Len(identifier.s)))

\* What holds of createSafeLogData whichever way present fields are copied:
\* only whitelisted keys, identifiers masked, nothing emitted for a field the
\* input lacks, and nothing emitted but the input's own value
WhitelistOnly(data, safe) ==
  /\ DOMAIN safe \subseteq OperationalFields \cup IdentifierFields
  /\ \A k \in DOMAIN safe : Present(data, k)
  /\ \A k \in DOMAIN safe \cap OperationalFields : safe[k] = data[k]
  /\ \A k \in DOMAIN safe \cap IdentifierFields : Masked(safe[k], data[k])

\* C20 as stated: the output of createSafeLogData has whitelisted keys only,
\* every operational field present in the input is copied verbatim,
\* identifiers are emitted masked only, and an absent field stays absent.
C20_WhitelistAsStated ==
  (pc = "done" /\ op = "createSafeLogData")
    => /\ WhitelistOnly(args.data, outcome.value)
       /\ \A k \in OperationalFields :
            Present(args.data, k)
              => /\ k \in DOMAIN outcome.value
                 /\ outcome.value[k] = args.data[k]

\* C20 amended: as stated, but endpoint and method are copied only when they
\* are not the empty string, and an empty orderId or mdOrder is left out.
C20_Whitelist ==
  (pc = "done" /\ op = "createSafeLogData")
    => /\ WhitelistOnly(args.data, outcome.value)
       /\ \A k \in {"durationMs", "statusCode", "errorCode"} :
            Present(args.data, k)
              => /\ k \in DOMAIN outcome.value
                 /\ outcome.value[k] = args.data[k]
       /\ \A k \in {"endpoint", "method"} :
            IF Present(args.data, k) /\ args.data[k] # Str(<<>>)
            THEN /\ k \in DOMAIN outcome.value
                 /\ outcome.value[k] = args.data[k]
            ELSE k \notin DOMAIN outcome.value
       /\ \A k \in IdentifierFields :
            k \in DOMAIN outcome.value
              <=> (Present(args.data, k) /\ args.data[k] # Str(<<>>))

\* An input with an empty endpoint, a status, an order identifier and a
\* password: the status is copied, the identifier masked, the rest left out
C20_Witness ==
  /\ pc = "done"
  /\ op = "createSafeLogData"
  /\ args.data = [endpoint |-> Str(<<>>), statusCode |-> Num(200),
                  orderId |-> Str(SampleOrderId),
                  password |-> Str(SecretChars)]
  /\ outcome.value
       = [statusCode |-> Num(200),
          orderId |-> Str(<<"[REDACTED]...", "A", "A", "A", "B", "L", "3">>)]

\* The prefix fromEnv reads the variables under
PrefixInEffect ==
  IF args.options.prefix = Undefined THEN "SATIM_" ELSE args.options.prefix.s[1]

\* Whether the variable key is unset or empty under that prefix
IsAbsent(key) ==
  LET name == <<PrefixInEffect, key>>
  IN name \notin DOMAIN args.options.env \/ args.options.env[name].s = <<>>

\* The full names of those variables of keys that are absent, in order
AbsentAmong(keys) ==
  LET Names[i \in 0..Len(keys)] ==
        IF i = 0 THEN <<>>
        ELSE IF IsAbsent(keys[i])
             THEN Append(Names[i - 1], <<PrefixInEffect, keys[i]>>)
             ELSE Names[i - 1]
  IN Names[Len(keys)]

\* fromEnv raises one ConfigError listing exactly the absent variables of
\* keys, and returns a configuration only when none of them is absent
RequiresAll(keys) ==
  (pc = "done" /\ op = "fromEnv") =>
    IF AbsentAmong(keys) # <<>>
    THEN /\ outcome.state = "threw"
         /\ outcome.error.name = "ConfigError"
         /\ outcome.error.kind = "CONFIG_ERROR"
         /\ outcome.error.missingKeys = AbsentAmong(keys)
    ELSE /\ outcome.state = "returned"
         /\ outcome.value.userName.s # <<>>
         /\ outcome.value.password.s # <<>>
         /\ outcome.value.terminalId.s # <<>>

\* C21 as stated: fromEnv raises one ConfigError whose missingKeys lists every
\* absent variable among login, secret, terminal id and base address, and
\* returns a configuration only when none of the four is absent.
C21_BaseAddressRequired ==
  RequiresAll(<<"USERNAME", "PASSWORD", "TERMINAL_ID", "API_URL">>)

\* C21, amended: fromEnv raises one ConfigError whose missingKeys lists, with
\* the prefix, every absent variable among login, secret and terminal id (all
\* of them, not only the first), and returns a configuration exactly when none
\* of the three is absent; the base address is not required.
C21_FromEnv == RequiresAll(<<"USERNAME", "PASSWORD", "TERMINAL_ID">>)

\* Two required variables are absent under a custom prefix and both are listed
C21_Witness ==
  /\ pc = "done"
  /\ op = "fromEnv"
  /\ outcome.state = "threw"
  /\ outcome.error.missingKeys =
       <<<<"PAYMENT_", "USERNAME">>, <<"PAYMENT_", "TERMINAL_ID">>>>
  /\ IsAbsent("API_URL")

\* register has handed a request to makeRequest
RegisterRequested == op = "register" /\ sent.request # NoParams

\* The parameter name of the outbound request carries exactly the argument
\* given under argument, and is not sent when that argument is not given
SentTopLevel(argument, name) ==
  IF Truthy(Get(args, argument))
  THEN name \in DOMAIN sent.params /\ sent.params[name] = args[argument]
  ELSE name \notin DOMAIN sent.params

\* C22: in register's outbound request the funding-type indicator, when
\* supplied, is a top-level parameter of its own and the idempotency token,
\* when supplied, is the top-level parameter externalRequestId; neither is
\* sent when not supplied.
C22_TopLevelParameters ==
  RegisterRequested =>
    /\ SentTopLevel("fundingTypeIndicator", "fundingTypeIndicator")
    /\ SentTopLevel("idempotencyKey", "externalRequestId")

\* The optional fields of a confirmation result, each with the name the
\* gateway sends it under
OptionalConfirmFields ==
  {<<"authorizationResponseId", "authorizationResponseId">>,
   <<"approvalCode", "approvalCode">>, <<"cardholderName", "cardholderName">>,
   <<"depositAmount", "depositAmount">>, <<"currency", "currency">>,
   <<"description", "Description">>, <<"ip", "Ip">>,
   <<"clientId", "clientId">>, <<"bindingId", "bindingId">>,
   <<"paymentAccountReference", "paymentAccountReference">>,
   <<"params", "params">>, <<"pan", "Pan">>, <<"orderNumber", "OrderNumber">>}

\* The number a gateway field stands for, sent as a number or as its digits
NumberSent(v) ==
  IF v.t = "string" THEN Num(parseInt(v.s).n) ELSE v

\* C23: a successful confirm result carries OrderStatus and Amount as
\* numbers, whether the gateway sent numbers or numeric strings, and every
\* optional field the gateway omitted is in the result as an explicit null.
C23_ConfirmResultComplete ==
  (Settled /\ op = "confirm" /\ outcome.state = "returned")
    => LET r == outcome.value
           st == Get(r.raw, "OrderStatus")
           am == Get(r.raw, "Amount")
       IN /\ ~IsNullish(st) => r.orderStatus = NumberSent(st)
          /\ ~IsNullish(am) => r.amount = NumberSent(am)
          /\ \A f \in OptionalConfirmFields :
               f[2] \notin DOMAIN r.raw
                 => (f[1] \in DOMAIN r /\ r[f[1]] = Null)

\* The argument field of the register call, undefined when not given
Given(field) == Get(args, field)

\* More characters than max in a string argument
Exceeds(field, max) ==
  Given(field).t = "string" /\ Len(Given(field).s) > max

\* The sub-codes of the field rules the arguments of the register call break
FieldOffences ==
  {c \in {"INVALID_ORDER_NUMBER", "INVALID_RETURN_URL", "INVALID_UDF1",
          "INVALID_UDF2", "INVALID_UDF3", "INVALID_UDF4", "INVALID_UDF5",
          "INVALID_DESCRIPTION"} :
     CASE c = "INVALID_ORDER_NUMBER" ->
            \/ ~Truthy(Given("orderNumber"))
            \/ Given("orderNumber").t # "string"
            \/ Exceeds("orderNumber", 10)
       [] c = "INVALID_RETURN_URL" -> ~Truthy(Given("returnUrl"))
       [] c = "INVALID_UDF1" ->
            ~Truthy(Given("udf1")) \/ Exceeds("udf1", 20)
       [] c = "INVALID_UDF2" -> Exceeds("udf2", 20)
       [] c = "INVALID_UDF3" -> Exceeds("udf3", 20)
       [] c = "INVALID_UDF4" -> Exceeds("udf4", 20)
       [] c = "INVALID_UDF5" -> Exceeds("udf5", 20)
       [] OTHER -> Exceeds("description", 512)}

\* The length of the jsonParams string of the register call
SerializedLength ==
  Len(JSONstringify(buildJsonParams(config.terminalId, args)))

\* C24: register raises a ValidationError with the sub-code of the offending
\* field when orderNumber is empty, not a string or longer than 10
\* characters, returnUrl is empty, udf1 is empty or longer than 20, one of
\* udf2..udf5 is longer than 20, description is longer than 512, or (the
\* fields and the amount being acceptable) the serialized jsonParams is
\* longer than 1024; arguments whose values are exactly 10, 20, 512 and 1024
\* long are accepted and the request is made.
C24_RegisterValidation ==
  (op = "register" /\ pc # "idle") =>
    IF FieldOffences # {}
    THEN Failed("VALIDATION_ERROR") /\ outcome.error.code \in FieldOffences
    ELSE ~toMinorUnits(Given("amount")).threw =>
           IF SerializedLength > 1024
           THEN /\ Failed("VALIDATION_ERROR")
                /\ outcome.error.code = "INVALID_JSON_PARAMS"
           ELSE ~Failed("VALIDATION_ERROR") /\ sent.request # NoParams

\* register called with every field exactly at its bound: the request is made
C24_Witness ==
  /\ op = "register"
  /\ Len(Given("orderNumber").s) = 10
  /\ Len(Given("udf1").s) = 20
  /\ Len(Given("udf5").s) = 20
  /\ Len(Given("description").s) = 512
  /\ SerializedLength = 1024
  /\ sent.request # NoParams
  /\ fetchCalls = 1

\* The base address and the endpoint path of the call that was made
BaseOfCall == IF op = "request" THEN args.baseUrl ELSE config.apiBaseUrl

PathOfCall ==
  CASE op = "register" -> ENDPOINTS.REGISTER
    [] op = "confirm" -> ENDPOINTS.CONFIRM
    [] op = "refund" -> ENDPOINTS.REFUND
    [] OTHER -> args.endpoint

\* The base address, one trailing slash dropped, followed by the path
JoinedAddress ==
  LET base == BaseOfCall
  IN (IF base[Len(base)] = "/" THEN SubSeq(base, 1, Len(base) - 1) ELSE base)
       \o PathOfCall

\* C25: when the configured method is POST, the request URL is the base
\* address joined with the endpoint path and carries no query string, and all
\* parameters are in the form-urlencoded body only; when it is GET, all
\* parameters are in the query string and there is no body.  Both ask for
\* application/json.
C25_ParameterPlacement ==
  (pc # "idle" /\ sent.request # NoParams) =>
    LET req == sent.request
    IN /\ req.url = JoinedAddress
       /\ req.headers.Accept = "application/json"
       /\ req.method = config.httpMethod
       /\ config.httpMethod = "POST" =>
            /\ req.query = NoParams
            /\ req.body = sent.params
            /\ req.headers.ContentType = "application/x-www-form-urlencoded"
       /\ config.httpMethod = "GET" =>
            /\ req.query = sent.params
            /\ req.body = NoParams

\* A POST register whose credentials are in the body and not in the URL
C25_Witness ==
  /\ op = "register"
  /\ fetchCalls = 1
  /\ config.httpMethod = "POST"
  /\ sent.request.query = NoParams
  /\ sent.request.body.password = config.password
  /\ sent.request.url =
       <<"https://test.satim.dz/payment/rest", "/", "register.do">>

\* A response was received and its status is a 2xx one
Received2xx ==
  response # NoResponse /\ response.status >= 200 /\ response.status <= 299

\* The call ran into the timeout or a network fault
TimedOutOrFaulted == pc = "done" /\ caught.cause.from \in {"abort", "fetch"}

\* C26: a SatimApiError is raised only after a round trip that ended in a 2xx
\* response whose body was parsed; a non-2xx response is never parsed and
\* never gives a SatimApiError or a result, and neither does a timeout or a
\* network fault.
C26_ApiErrorNeedsParsedBody ==
  pc # "idle" =>
    /\ Failed("API_ERROR")
         => (fetchCalls = 1 /\ Received2xx /\ response.parsed)
    /\ (response # NoResponse /\ ~Received2xx)
         => /\ ~response.parsed
            /\ pc = "done"
            /\ ~Failed("API_ERROR")
            /\ outcome.state = "threw"
    /\ TimedOutOrFaulted
         => (~Failed("API_ERROR") /\ outcome.state = "threw")

\* A refund answered 200 with gateway code 7: a SatimApiError
C26_Witness ==
  /\ op = "refund"
  /\ Failed("API_ERROR")
  /\ outcome.error.satimErrorCode = Num(7)
  /\ response.status = 200
  /\ response.parsed

\* makeRequest was called with a logger
CalledWithLogger ==
  pc # "idle" /\ sent.request # NoParams /\ sent.options.logger

\* The parsed body carries a gateway code
BodyHasCode ==
  /\ response.parsed
  /\ response.data # Null
  /\ \E k \in {"errorCode", "ErrorCode"} :
       k \in DOMAIN response.data /\ ~IsNullish(response.data[k])

\* The level and the message of the record that ends a settled call
TerminalRecord ==
  CASE response.parsed ->
         [level |-> "info", msg |-> "Satim API request completed"]
    [] response # NoResponse /\ ~Received2xx ->
         [level |-> "warn", msg |-> "Satim API request failed with HTTP error"]
    [] caught.name = "AbortError" ->
         [level |-> "error", msg |-> "Satim API request timed out"]
    [] OTHER ->
         [level |-> "error",
          msg |-> "Satim API request failed with network error"]

\* The records of a call are a debug record, then, once the call has
\* settled, the one record that matches its outcome
DebugThenOneTerminalRecord ==
  /\ Len(logs) >= 1
  /\ logs[1].level = "debug"
  /\ pc # "done" => Len(logs) = 1
  /\ pc = "done" =>
       /\ Len(logs) = 2
       /\ logs[2].level = TerminalRecord.level
       /\ logs[2].msg = TerminalRecord.msg
       /\ BodyHasCode => "satimErrorCode" \in DOMAIN logs[2].data

\* C27: with a logger configured, each makeRequest call emits a debug record
\* before the transport is invoked and then exactly one terminal record
\* matching its outcome: info (with the gateway code when the body has one)
\* on a parsed 2xx response, warn on a non-2xx response, error on a timeout,
\* error on any other fault; a non-2xx response gives the warn record only.
C27_LogSequence == CalledWithLogger => DebugThenOneTerminalRecord

\* Everything call i holds apart from its clock
CallState(i) ==
  <<pc[i], op[i], args[i], sent[i], fetchCalls[i], timer[i], aborted[i],
    response[i], caught[i], outcome[i]>>

\* The outcome of call i as its own arguments, the configuration and what its
\* own transport did determine it
OwnOutcome(i) ==
  LET r == Invoke(config, [operation |-> op[i], a |-> args[i]])
  IN IF r.pc = "done" THEN r.outcome
     ELSE IF caught[i] # NoError
     THEN Threw(Catch(caught[i], r.endpoint, r.options, elapsed[i]).error)
     ELSE Continue(op[i], [status |-> response[i].status,
                           data |-> response[i].data,
                           durationMs |-> response[i].durationMs])

\* The request of call i is the one its own arguments and the configuration
\* give, and once settled its outcome is its own
OwnRequestAndOutcome(i) ==
  pc[i] # "idle" =>
    /\ sent[i].params =
         Invoke(config, [operation |-> op[i], a |-> args[i]]).params
    /\ pc[i] = "done" => outcome[i] = OwnOutcome(i)

\* What every call holds is its own
OwnState ==
  \A i \in Calls :
    /\ pc[i] = "idle" => (sent[i] = NoParams /\ outcome[i] = NoOutcome)
    /\ aborted[i] => elapsed[i] >= config.timeoutMs
    /\ OwnRequestAndOutcome(i)

\* A step of calls that do not interfere
IndependentStep ==
  /\ config' = config
  /\ Cardinality({i \in Calls : CallState(i)' # CallState(i)}) <= 1

\* C28: for any interleaving of the calls issued on one client, each call's
\* outcome depends only on its own arguments, the resolved configuration and
\* its own transport response: a call is aborted only by its own timer, a
\* call that has not been issued holds nothing of the others, a step changes
\* the state of one call at most, and no step changes the configuration.
C28_CallsAreIndependent == []OwnState /\ [][IndependentStep]_vars

\* The timer of call 1 has aborted it while call 2, issued later, is reading
\* its response, not aborted
C28_Witness ==
  /\ pc[1] = "fetching"
  /\ aborted[1]
  /\ pc[2] = "parsing"
  /\ ~aborted[2]
  /\ elapsed[2] < elapsed[1]

\* makeRequest was called and has settled
RequestSettled == pc = "done" /\ sent.request # NoParams

\* The exit paths of makeRequest
ExitPath ==
  CASE caught = NoError -> "parsed response"
    [] caught.kind = "HTTP_ERROR" -> "non-2xx response"
    [] caught.cause.from = "json" -> "unparsable body"
    [] caught.cause.from \in {"onRequest", "onResponse"} -> "throwing hook"
    [] caught.cause.from = "abort" -> "timeout"
    [] OTHER -> "network fault"

\* C29: on every exit path of makeRequest (parsed response, non-2xx
\* response, unparsable body, throwing hook, timeout, network fault) the
\* timeout timer is cleared when the call settles, and nothing happens after
\* a call has settled: no abort fires and nothing is left pending.
C29_TimerCleared ==
  /\ [](RequestSettled => (timer = "cleared" /\ ~Pending))
  /\ [][pc # "done"]_vars

\* A call ended by a throwing onResponse hook, its timer cleared
C29_Witness ==
  /\ RequestSettled
  /\ ExitPath = "throwing hook"
  /\ response.parsed
  /\ timer = "cleared"

\* The code field of the parsed body, undefined when the body has none
CodeSent == Get(response.data, CodeField(op))

\* A code field that is absent, null, or a string without a leading integer
NoUsableCode ==
  \/ IsNullish(CodeSent)
  \/ /\ CodeSent.t = "string"
     /\ \/ CodeSent.s = <<>>
        \/ ~IsDigit(CodeSent.s[1]) /\ CodeSent.s[1] \notin {"-", "+", " "}

\* C30: a 2xx response whose body is an object whose code field is absent,
\* null, or a string that does not parse as an integer is treated as code 0
\* by register, confirm and refund: the call returns a result with errorCode
\* 0 instead of raising SatimApiError, and for confirm and refund that result
\* is successful.
C30_MissingCodeIsZero ==
  (Settled /\ response.parsed /\ response.data # Null /\ NoUsableCode)
    => /\ outcome.state = "returned"
       /\ outcome.value.errorCode = Num(0)
       /\ op \in {"confirm", "refund"} => outcome.value.isSuccessful

\* A refund answered 200 with the code "abc": a successful result
C30_Witness ==
  /\ Settled
  /\ op = "refund"
  /\ response.parsed
  /\ response.data # Null
  /\ CodeSent = Str(<<"a", "b", "c">>)
  /\ outcome.state = "returned"
  /\ outcome.value.isSuccessful
====
